---- MODULE Spec2Model ----
(***************************************************************************)
(* A model of the Somnia data streams SDK: the Streams facade              *)
(* (src/src/modules/streams/index.ts), the Viem wrapper                    *)
(* (src/src/services/viem/index.ts), the contract binding registry         *)
(* (src/src/services/smart-contracts), address validation                  *)
(* (src/src/utils/validation.ts) and the SchemaEncoder                     *)
(* (src/src/modules/streams/encoder/index.ts).                             *)
(*                                                                         *)
(* Text is a sequence of one-character strings, so that trim, indexOf and  *)
(* the template `${a}, ${b}` are computed as the code computes them.       *)
(* An async function is a frame on `stack`; every step is the code between *)
(* two suspension points of the top frame.  A network call (chain-id       *)
(* fetch, contract read, contract write) is logged in `calls` when it is   *)
(* issued and completed by a separate step that picks its outcome.         *)
(***************************************************************************)
EXTENDS Integers, Sequences, FiniteSets, TLC

\* ------------------------------------------------------------------ bounds

\* Number of schema identifiers the modelled registry knows (base, parent,
\* grandparent, ...).
MaxSchemas == 3

\* Largest one-based index publisherDataIndex answers with.
MaxIndex == 2

\* ------------------------------------------------------------------- text

Whitespace == {" "}

RECURSIVE TrimStart(_)
TrimStart(s) ==
    IF s # <<>> /\ Head(s) \in Whitespace THEN TrimStart(Tail(s)) ELSE s

RECURSIVE TrimEnd(_)
TrimEnd(s) ==
    IF s # <<>> /\ s[Len(s)] \in Whitespace
    THEN TrimEnd(SubSeq(s, 1, Len(s) - 1))
    ELSE s

\* String.prototype.trim
Trim(s) == TrimEnd(TrimStart(s))

\* String.prototype.indexOf: the zero-based first position of pat in s, or -1
IndexOf(s, pat) ==
    LET hits == { i \in 1..(Len(s) - Len(pat) + 1) :
                    SubSeq(s, i, i + Len(pat) - 1) = pat }
    IN IF hits = {} THEN -1
       ELSE (CHOOSE i \in hits : \A j \in hits : i <= j) - 1

HexPrefix == <<"0", "x">>

Digits == <<"1", "2", "3", "4", "5", "6", "7", "8", "9">>

\* The bytes32 identifier number i stands for; 0x0 abbreviates 64 zero digits
\* and 0xi the 32-byte hash of schema i's text.
HexId(i) == IF i = 0 THEN HexPrefix \o <<"0">> ELSE HexPrefix \o <<Digits[i]>>

zeroBytes32 == HexId(0)

SchemaIds == 1..MaxSchemas

Letters == <<"a", "b", "c", "d", "e", "f", "g", "h", "i">>

\* The schema text whose hash is identifier i.
SchemaText(i) == <<Letters[i]>>

\* ---------------------------------------------------------------- addresses

HexChars == {"0", "1", "2", "3", "4", "5", "6", "7", "8", "9",
             "a", "b", "c", "d", "e", "f", "A", "B", "C", "D", "E", "F"}

\* viem isAddress(address, { strict: false }): 0x and 40 hex digits
IsAddress(a) ==
    /\ Len(a) = 42
    /\ SubSeq(a, 1, 2) = HexPrefix
    /\ \A i \in 3..42 : a[i] \in HexChars

zeroAddress == HexPrefix \o [i \in 1..40 |-> "0"]

\* viem isAddressEqual(address, zeroAddress); case plays no part for zeros
IsZeroAddress(a) == a = zeroAddress

GoodAddress == HexPrefix \o [i \in 1..40 |-> "a"]
ShortAddress == HexPrefix \o [i \in 1..39 |-> "a"]
NonHexAddress == HexPrefix \o [i \in 1..40 |-> "g"]

Addresses == {GoodAddress, zeroAddress, ShortAddress, NonHexAddress}

\* assertAddressIsValid(address): "ok", or the error it throws
assertAddressIsValid(a) ==
    IF ~IsAddress(a) THEN "InvalidAddress"
    ELSE IF IsZeroAddress(a) THEN "ZeroAddress"
    ELSE "ok"

\* ------------------------------------------------------- the chain (external)

\* Chain ids: one the address registry binds to the STREAMS contract, one it
\* binds to the zero address, and one it does not know.
SomniaTestnet == 50312

SomniaMainnet == 5031

ClientChains == {SomniaTestnet, SomniaMainnet, 1}

\* The on-chain schema registry as the reads see it: text[i] is what
\* schemaReverseLookup returns for identifier i, parent[i] the number of the
\* identifier parentSchemaId returns (0: the all-zero bytes32).
TextStates(i) == {<<>>, <<" ">>, SchemaText(i)}

ChainRegistry(len, txt) ==
    [text   |-> txt,
     parent |-> [i \in SchemaIds |-> IF i < len THEN i + 1 ELSE 0]]

\* Registries in which identifier 1 heads a chain of len schemas
\* (1 extends 2 extends 3 ...); identifiers off the chain are unregistered.
RegistryTexts(len) ==
    { t \in [SchemaIds -> UNION { TextStates(i) : i \in SchemaIds }] :
        \A i \in SchemaIds : t[i] \in (IF i <= len THEN TextStates(i) ELSE {<<>>}) }

Registries ==
    UNION { { ChainRegistry(len, txt) : txt \in RegistryTexts(len) } : len \in SchemaIds }

NoRegistry == ChainRegistry(1, [i \in SchemaIds |-> <<>>])

\* The number of the identifier a hex string names (0 when none).
IdNumber(id) ==
    IF \E i \in SchemaIds : HexId(i) = id
    THEN CHOOSE i \in SchemaIds : HexId(i) = id
    ELSE 0

\* The contract's computeSchemaId: the hash of the text.
ChainComputeSchemaId(text) ==
    IF \E i \in SchemaIds : SchemaText(i) = text
    THEN HexId(CHOOSE i \in SchemaIds : SchemaText(i) = text)
    ELSE HexPrefix \o <<"f">>

\* The contract's schemaReverseLookup and parentSchemaId.
ChainReverseLookup(reg, id) ==
    IF IdNumber(id) = 0 THEN <<>> ELSE reg.text[IdNumber(id)]

ChainParentSchemaId(reg, id) ==
    IF IdNumber(id) = 0 THEN zeroBytes32 ELSE HexId(reg.parent[IdNumber(id)])

\* Raw payload lists a data read may return; "bad" does not decode.
RawLists == {<<"p1">>, <<"p2", "p1">>, <<"p1", "bad">>}

\* The dataStreams and eventStreams a caller hands setAndEmitEvents.
DataStreamLists == {<<>>, <<"data1">>, <<"data1", "data2">>}

EventStreamLists == {<<>>, <<"event1">>}

StreamArguments == { <<d, e>> : d \in DataStreamLists, e \in EventStreamLists }

\* --------------------------------------------------------- the facade's table

\* Operations that end in `return this.viem.readContract(...)`.
PassthroughReads ==
    {"computeSchemaId", "isDataSchemaRegistered", "totalPublisherDataForSchema",
     "parentSchemaId", "schemaIdToSchemaName", "schemaNameToSchemaId",
     "getAllSchemas", "getEventSchemasById"}

\* Operations that `await` a data read and hand it to deserialiseRawData.
DataReads ==
    {"getBetweenRange", "getAtIndex", "getAllPublisherDataForSchema",
     "getLastPublishedDataForSchema", "getLastNPublishedDataForSchema"}

\* Operations that send one contract write.
SimpleWrites ==
    {"manageEventEmittersForRegisteredStreamsEvent", "setIsEventEmissionOpen",
     "setAndEmitEvents", "registerEventSchemas", "emitEvents", "set"}

WriteOps == SimpleWrites \cup {"registerDataSchemas"}

\* The earlier variant of the Streams class, whose operations answer
\* `Promise<... | null>`: its `set`.
EarlierVariantOps == {"set (earlier variant)"}

\* The earlier variant's getByKey and the getAtIndex it ends in.
EarlierReadOps == {"getByKey (earlier variant)", "getAtIndex (earlier variant)"}

\* The earlier variant's subscribe, which answers undefined when it fails.
SubscribeOps == {"subscribe (earlier variant)"}

TransportTypes == {"webSocket", "http"}

\* Operations with a publisher or emitter address parameter.
AddressOps ==
    {"manageEventEmittersForRegisteredStreamsEvent", "totalPublisherDataForSchema",
     "getBetweenRange", "getAtIndex", "getAllPublisherDataForSchema", "getByKey",
     "getLastPublishedDataForSchema", "getLastNPublishedDataForSchema"}
    \cup EarlierReadOps

\* Operations whose first statement is assertAddressIsValid(...).
ValidatingOps ==
    {"manageEventEmittersForRegisteredStreamsEvent", "totalPublisherDataForSchema",
     "getBetweenRange", "getAtIndex", "getAllPublisherDataForSchema", "getByKey"}
    \cup EarlierReadOps

\* Operations that resolve a schema reference.
LookupOps == DataReads \cup {"getByKey", "deserialiseRawData", "getSchemaFromSchemaId"}

\* Functions that start with getChainId and getContractAddressAndAbi.
FacadeFns ==
    PassthroughReads \cup DataReads \cup WriteOps \cup EarlierVariantOps \cup
    EarlierReadOps \cup SubscribeOps \cup
    {"getByKey", "getSomniaDataStreamsProtocolInfo", "deserialiseRawData",
     "getSchemaFromSchemaId"}

PublicOps == FacadeFns

\* The contract function an operation calls.
ContractFunction(fn) ==
    CASE fn = "manageEventEmittersForRegisteredStreamsEvent" -> "manageEventEmitter"
      [] fn = "setIsEventEmissionOpen" -> "setIsEventEmissionOpen"
      [] fn = "setAndEmitEvents" -> "publishDataAndEmitEvents"
      [] fn = "registerEventSchemas" -> "registerEventSchemas"
      [] fn = "emitEvents" -> "emitEvents"
      [] fn = "set" -> "esstores"
      [] fn = "set (earlier variant)" -> "esstores"
      [] fn = "registerDataSchemas" -> "registerSchemas"
      [] fn = "computeSchemaId" -> "computeSchemaId"
      [] fn = "isDataSchemaRegistered" -> "isSchemaRegistered"
      [] fn = "totalPublisherDataForSchema" -> "totalPublisherDataForSchema"
      [] fn = "parentSchemaId" -> "parentSchemaId"
      [] fn = "schemaIdToSchemaName" -> "schemaIdToName"
      [] fn = "schemaNameToSchemaId" -> "nameToSchemaId"
      [] fn = "getAllSchemas" -> "getAllSchemas"
      [] fn = "getEventSchemasById" -> "getEventSchemasById"
      [] fn = "getBetweenRange" -> "getPublisherDataForSchemaInRange"
      [] fn = "getAtIndex" -> "getPublisherDataForSchemaAtIndex"
      [] fn = "getAllPublisherDataForSchema" -> "getAllPublisherDataForSchema"
      [] fn = "getLastPublishedDataForSchema" -> "getLastPublishedDataForSchema"
      [] fn = "getLastNPublishedDataForSchema" -> "getLastNPublishedDataForSchema"
      [] fn = "getByKey" -> "publisherDataIndex"
      [] OTHER -> "none"

\* The address table of the STREAMS contract; <<>> stands for no entry.
StreamsAddress == HexPrefix \o [i \in 1..40 |-> "6"]

STREAMS_LIBRARY_BY_CHAIN(chain) ==
    IF chain = SomniaMainnet THEN zeroAddress
    ELSE IF chain = SomniaTestnet THEN StreamsAddress
    ELSE <<>>

\* getContractAddress({ internal: STREAMS, chainId }); <<>> stands for null
getContractAddress(chain) ==
    IF chain # 0 THEN STREAMS_LIBRARY_BY_CHAIN(chain) ELSE <<>>

\* `isAddressEqual(address, zeroAddress)` in getContractAddressAndAbi
ZeroBound(address) == IsZeroAddress(address)

\* getContractAddressAndAbi: "ok" or the error it throws
getContractAddressAndAbi(chain) ==
    LET address == getContractAddress(chain)
    IN  IF address = <<>> THEN "UnresolvedBinding"
        ELSE IF ~IsAddress(address) THEN "InvalidContractAddress"
        ELSE IF ZeroBound(address) THEN "NoContractConnected"
        ELSE "ok"

\* ------------------------------------------------------------------ values

\* What an async function hands its caller: nothing yet ("none"), a value, an
\* Error object returned as a value ("error"), or a rejection ("thrown").
Outcome(kind, err, tag, text, raw, decoded, base, final, idx) ==
    [kind |-> kind, err |-> err, tag |-> tag, text |-> text, raw |-> raw,
     decoded |-> decoded, base |-> base, final |-> final, idx |-> idx]

NoRet == Outcome("none", "", "none", <<>>, <<>>, <<>>, <<>>, <<>>, 0)
Thrown(e) == Outcome("thrown", e, "none", <<>>, <<>>, <<>>, <<>>, <<>>, 0)
Err(e) == Outcome("error", e, "none", <<>>, <<>>, <<>>, <<>>, <<>>, 0)
Val(tag) == Outcome("value", "", tag, <<>>, <<>>, <<>>, <<>>, <<>>, 0)
ValText(tag, t) == Outcome("value", "", tag, t, <<>>, <<>>, <<>>, <<>>, 0)
ValRaw(l) == Outcome("value", "", "raw", <<>>, l, <<>>, <<>>, <<>>, 0)
ValDecoded(l) == Outcome("value", "", "decoded", <<>>, <<>>, l, <<>>, <<>>, 0)
ValSchema(b, f, id) == Outcome("value", "", "schema", id, <<>>, <<>>, b, f, 0)
ValIndex(n) == Outcome("value", "", "index", <<>>, <<>>, <<>>, <<>>, <<>>, n)

\* A network call as logged when issued.
Call(kind, fn, arg, idx) ==
    [kind |-> kind, fn |-> fn, arg |-> arg, idx |-> idx, regs |-> <<>>]

\* One of the reads of Promise.all / the parent read: its state and its value.
Pending(st, val) == [st |-> st, val |-> val]

NoLookup ==
    [schemaId |-> <<>>, onchain |-> TRUE,
     base |-> Pending("idle", <<>>), par |-> Pending("idle", <<>>),
     ptext |-> Pending("idle", <<>>),
     out |-> NoRet]

\* registerDataSchemas' arguments and the tasks of its Promise.all.
NoRegistrations == [list |-> <<>>, ignore |-> FALSE, tasks |-> <<>>]

Frame(fn, ref, addr, idx, raw) ==
    [fn |-> fn, pc |-> "entry", ref |-> ref, addr |-> addr, idx |-> idx, raw |-> raw,
     regs |-> NoRegistrations]

\* A DataSchemaRegistration; parentSchemaId <<>> stands for an absent one.
Registration(schema, parent) == [schema |-> schema, parentSchemaId |-> parent]

RegistrationLists ==
    {<<>>,
     <<Registration(SchemaText(1), <<>>)>>,
     <<Registration(SchemaText(1), <<>>), Registration(SchemaText(2), HexId(1))>>}

\* registration.parentSchemaId ? registration.parentSchemaId : zeroBytes32
DefaultParent(r) ==
    [r EXCEPT !.parentSchemaId = IF r.parentSchemaId # <<>> THEN r.parentSchemaId
                                 ELSE zeroBytes32]

RECURSIVE Unregistered(_, _)
RECURSIVE UnregisteredMutant(_, _)
\* .filter((registration) => !registration.isRegistered), order kept
UnregisteredMutant(list, tasks) ==
    IF list = <<>> THEN <<>>
    ELSE <<DefaultParent(list[1])>> \o UnregisteredMutant(Tail(list), Tail(tasks))

Unregistered(list, tasks) ==
    IF list = <<>> THEN <<>>
    ELSE (IF tasks[1].registered THEN <<>> ELSE <<DefaultParent(list[1])>>)
         \o Unregistered(Tail(list), Tail(tasks))

\* ------------------------------------------------------------------- state

VARIABLES
    chainId,      \* Viem._chainId: the cached chain id, 0 while unset
    clientChain,  \* the chain the public client is connected to
    hasWallet,    \* client.wallet is configured
    transport,    \* client.public.transport.type
    request,      \* the public operation in progress or just settled, and its arguments
    registry,     \* the on-chain schema registry during the operation
    stack,        \* the async functions in progress, innermost first
    ret,          \* what the function that just returned handed its caller
    calls,        \* the network calls issued by the operation, in order
    result,       \* what the public operation's promise settled with
    lk,           \* schemaLookup's local variables, and (out) what it settled with
    warnings      \* what the operation has written with console.warn, in order

\* A SchemaEncoder and one encodeData / decodeData round on it.
VARIABLES
    abiParams,    \* SchemaEncoder.abiParams: the parsed schema
    items,        \* the SchemaItem list handed to encodeData
    payload,      \* the bytes encodeData returned
    decodedItems, \* the SchemaDecodedItem list decodeData returned
    codecPc,      \* "idle", "ready", "encoded", "decoded" or "thrown"
    encoderVariant, \* which SchemaEncoder class the encoder is: "current" or "earlier"
    thrown        \* the error the last call on the encoder threw, "" when it returned

codecVars == <<abiParams, items, payload, decodedItems, codecPc, encoderVariant, thrown>>

\* Several getChainId calls in progress on one Viem instance.
VARIABLES
    getChainIdCalls, \* each caller's getChainId call: where it stands and what it returned
    chainIdWrites,   \* how many times `this._chainId = ...` has run
    completedIds     \* the non-zero chain ids that completed getChainId calls returned

viemVars == <<getChainIdCalls, chainIdWrites, completedIds>>

\* ------------------------------------------------------- schemaLookup's logic

\* schemaRef.indexOf("0x") === -1: literal schema text
IsLiteralSchema(ref) == IndexOf(ref, HexPrefix) = -1

\* lookupSchemaOnchain && baseSchemaLookup.trim().length === 0
BaseNotRegisteredMutant(onchain, base) == FALSE

BaseNotRegistered(onchain, base) == onchain /\ Len(Trim(base)) = 0

\* parentSchemaId !== zeroBytes32
HasParentMutant(parentId) == TRUE

HasParent(parentId) == parentId # zeroBytes32

\* The final schema from the base text and the parent text (read: was the
\* parent text read at all, i.e. is parentSchema not null): its error, or "".
FinalSchemaError(base, read, parent) ==
    IF read /\ parent # <<>> /\ Len(Trim(parent)) = 0 THEN "InvalidParentSchema"
    ELSE IF (read /\ parent # <<>>) THEN ""
    ELSE IF Len(base) = 0 THEN "NoFinalSchema"
    ELSE ""

FinalSchemaMutant(base, read, parent) ==
    IF read /\ parent # <<>> THEN parent \o <<",", " ">> \o base ELSE base

\* A resolution that would follow the parent's own parent as well.
GrandparentText(reg, id) ==
    ChainReverseLookup(reg, ChainParentSchemaId(reg, ChainParentSchemaId(reg, id)))

FinalSchemaDeepMutant(base, read, parent) ==
    IF read /\ parent # <<>>
    THEN base \o <<",", " ">> \o parent \o <<",", " ">> \o GrandparentText(registry, lk.schemaId)
    ELSE base

FinalSchema(base, read, parent) ==
    IF read /\ parent # <<>> THEN base \o <<",", " ">> \o parent ELSE base

\* SchemaEncoder.decodeData on one payload: does it throw?
DecodeThrows(final, raw) == raw = "bad"

DecodeData(final, raw) == [payload |-> raw, schema |-> final]

\* deserialiseRawData once schemaLookup has settled with outcome r.
DeserialiseOutcomeMutant(r, rawData) ==
    IF r.kind = "thrown" THEN Err(r.err)
    ELSE IF r.kind = "error" THEN ValRaw(rawData)
    ELSE ValDecoded([i \in 1..Len(rawData) |->
            IF DecodeThrows(r.final, rawData[i])
            THEN [payload |-> rawData[i], schema |-> <<>>]
            ELSE DecodeData(r.final, rawData[i])])

DeserialiseOutcome(r, rawData) ==
    IF r.kind = "thrown" THEN Err(r.err)
    ELSE IF r.kind = "error" THEN ValRaw(rawData)
    ELSE IF \E i \in 1..Len(rawData) : DecodeThrows(r.final, rawData[i])
         THEN Err("DecodeError")
    ELSE ValDecoded([i \in 1..Len(rawData) |-> DecodeData(r.final, rawData[i])])

\* getSchemaFromSchemaId once schemaLookup has settled with outcome r.
GetSchemaOutcome(r) == IF r.kind = "thrown" THEN Err(r.err) ELSE r

facadeVars ==
    <<chainId, clientChain, hasWallet, transport, request, registry, stack, ret, calls, result, lk,
      warnings>>

vars == <<facadeVars, codecVars, viemVars>>

Top == stack[1]

Running(fns, pc) == stack # <<>> /\ Top.fn \in fns /\ Top.pc = pc

Goto(pc) == stack' = <<[Top EXCEPT !.pc = pc]>> \o Tail(stack)

Push(frame, pc) == stack' = <<frame, [Top EXCEPT !.pc = pc]>> \o Tail(stack)

Issue(call) == calls' = Append(calls, call)

\* The top function settles with r: its caller resumes, or the operation ends.
Return(r) ==
    /\ stack' = Tail(stack)
    /\ IF Len(stack) = 1
       THEN result' = r /\ ret' = NoRet
       ELSE ret' = r /\ UNCHANGED result

SchemaRefs == {<<>>, <<" ">>, HexId(1), SchemaText(1)}

\* The callers that may have a getChainId call in progress at the same time.
MaxCallers == 3

Callers == 1..MaxCallers

\* A getChainId call: pc is "idle", "fetching", "returned" or "rejected";
\* value is what it returned; fetched tells whether it issued
\* client.public.getChainId(); after holds the chain ids that completed calls
\* had returned when it started.
ChainIdCall(pc, value, fetched, after) ==
    [pc |-> pc, value |-> value, fetched |-> fetched, after |-> after,
     afterFailure |-> FALSE]

NoChainIdCalls ==
    /\ getChainIdCalls = [p \in Callers |-> ChainIdCall("idle", 0, FALSE, {})]
    /\ chainIdWrites = 0
    /\ completedIds = {}

\* args holds the list arguments of the operation, when it takes any.
Request(op, ref, addr) == [op |-> op, ref |-> ref, addr |-> addr, args |-> <<>>]

NoRequest == Request("none", <<>>, <<>>)

Init ==
    /\ chainId = 0
    /\ clientChain \in ClientChains
    /\ hasWallet \in BOOLEAN
    /\ transport \in TransportTypes
    /\ request = NoRequest
    /\ registry = NoRegistry
    /\ stack = <<>>
    /\ ret = NoRet
    /\ calls = <<>>
    /\ result = NoRet
    /\ lk = NoLookup
    /\ warnings = <<>>
    /\ abiParams = <<>>
    /\ items = <<>>
    /\ payload = <<>>
    /\ decodedItems = <<>>
    /\ codecPc = "idle"
    /\ encoderVariant = "current"
    /\ thrown = ""
    /\ NoChainIdCalls

\* ------------------------------------------------------- the caller's request

\* The inputs an operation is called with; parameters it does not have are fixed.
\* subscribe: somniaStreamsEventId, absent or given.
RefsFor(op) ==
    IF op \in LookupOps THEN SchemaRefs
    ELSE IF op \in SubscribeOps THEN {<<>>, HexId(1)}
    ELSE {HexId(1)}

\* subscribe: eventContractSource, absent or given.
AddressesFor(op) ==
    IF op \in AddressOps THEN Addresses
    ELSE IF op \in SubscribeOps THEN {<<>>, GoodAddress, zeroAddress}
    ELSE {GoodAddress}

\* The list arguments of an operation: the raw data of deserialiseRawData,
\* the pair (dataStreams, eventStreams) of setAndEmitEvents, the topicOverrides
\* of subscribe.
RawListsFor(op) ==
    IF op = "deserialiseRawData" THEN RawLists
    ELSE IF op = "setAndEmitEvents" THEN StreamArguments
    ELSE IF op \in SubscribeOps THEN {<<>>, <<"topic1">>}
    ELSE {<<>>}

RegistrationsFor(op) ==
    IF op = "registerDataSchemas"
    THEN { [list |-> l, ignore |-> b, tasks |-> <<>>] :
             l \in RegistrationLists, b \in BOOLEAN }
    ELSE {NoRegistrations}

\* The chain's registry matters to an operation that resolves a schema.
RegistriesFor(op, ref) ==
    IF op \in LookupOps \cup EarlierReadOps /\ Trim(ref) # <<>>
    THEN Registries
    ELSE {NoRegistry}

\* The application calls a public operation of Streams.
Invoke ==
    /\ stack = <<>>
    /\ result.kind = "none"
    /\ \E op \in PublicOps :
       \E ref \in RefsFor(op), addr \in AddressesFor(op), raw \in RawListsFor(op),
          regs \in RegistrationsFor(op) :
       \E reg \in RegistriesFor(op, ref) :
        /\ stack' = <<[Frame(op, ref, addr, 0, raw) EXCEPT !.regs = regs]>>
        /\ request' = [Request(op, ref, addr) EXCEPT
                          !.args = IF op = "registerDataSchemas"
                                   THEN <<regs.list, regs.ignore>>
                                   ELSE raw]
        /\ registry' = reg
    /\ UNCHANGED <<codecVars, viemVars, warnings, chainId, clientChain, hasWallet, transport, ret, calls, result, lk>>

\* The application takes the settled result; the chain may change meanwhile.
Consume ==
    /\ stack = <<>>
    /\ result.kind # "none"
    /\ result' = NoRet
    /\ calls' = <<>>
    /\ lk' = NoLookup
    /\ registry' = NoRegistry
    /\ request' = NoRequest
    /\ warnings' = <<>>
    /\ UNCHANGED <<codecVars, viemVars, chainId, clientChain, hasWallet, transport, stack, ret>>

\* ------------------------------------------- the prologue of a facade function

\* What a function's catch block returns for the error e: the Error, or, in
\* the earlier variant, null after console.error.
Caught(fn, e) ==
    IF fn \in EarlierVariantOps \cup EarlierReadOps THEN Val("null")
    ELSE IF fn \in SubscribeOps THEN Val("undefined")
    ELSE Err(e)

\* The first statement: assertAddressIsValid where the function has it.  It is
\* outside the try block, so its error rejects the function's promise.
Enter ==
    /\ Running(FacadeFns, "entry")
    /\ IF Top.fn \in ValidatingOps /\ assertAddressIsValid(Top.addr) # "ok"
       THEN /\ Return(Thrown(assertAddressIsValid(Top.addr)))
            /\ UNCHANGED <<codecVars, viemVars, warnings, chainId, clientChain, hasWallet, transport, request, registry, calls, lk>>
       ELSE /\ Goto("chainId")
            /\ UNCHANGED <<codecVars, viemVars, warnings, chainId, clientChain, hasWallet, transport, request, registry, ret, calls, result, lk>>

\* Viem.getChainId: the cached id, or a fetch from the public client.
GetChainId ==
    /\ Running(FacadeFns, "chainId")
    /\ IF chainId = 0
       THEN /\ Issue(Call("chainId", "getChainId", <<>>, 0))
            /\ Goto("chainId_wait")
       ELSE /\ Goto("binding")
            /\ UNCHANGED calls
    /\ UNCHANGED <<codecVars, viemVars, warnings, chainId, clientChain, hasWallet, transport, request, registry, ret, result, lk>>

\* The fetch answers: `this._chainId = await this.client.public.getChainId()`.
ChainIdFetched ==
    /\ Running(FacadeFns, "chainId_wait")
    /\ chainId' = clientChain
    /\ Goto("binding")
    /\ UNCHANGED <<codecVars, viemVars, warnings, clientChain, hasWallet, transport, request, registry, ret, calls, result, lk>>

\* The fetch fails: the await throws inside the try block.
ChainIdFailed ==
    /\ Running(FacadeFns, "chainId_wait")
    /\ Return(Caught(Top.fn, "ChainIdFailed"))
    /\ UNCHANGED <<codecVars, viemVars, warnings, chainId, clientChain, hasWallet, transport, request, registry, calls, lk>>

\* getContractAddressAndAbi({ internal: STREAMS, chainId })
ResolveBinding ==
    /\ Running(FacadeFns, "binding")
    /\ IF getContractAddressAndAbi(chainId) = "ok"
       THEN /\ Goto("body")
            /\ UNCHANGED <<ret, result>>
       ELSE Return(Caught(Top.fn, getContractAddressAndAbi(chainId)))
    /\ UNCHANGED <<codecVars, viemVars, warnings, chainId, clientChain, hasWallet, transport, request, registry, calls, lk>>

\* ------------------------------------------------------------ plain reads

\* `return this.viem.readContract(...)`: the read's promise is returned as is.
PassthroughRead ==
    /\ Running(PassthroughReads, "body")
    /\ Issue(Call("read", ContractFunction(Top.fn), Top.ref, 0))
    /\ Goto("wait_pass")
    /\ UNCHANGED <<codecVars, viemVars, warnings, chainId, clientChain, hasWallet, transport, request, registry, ret, result, lk>>

\* The contract's answer to a plain read.
ReadValue(fn, ref) ==
    IF fn = "computeSchemaId" THEN ValText("id", ChainComputeSchemaId(ref))
    ELSE IF fn = "parentSchemaId" THEN ValText("id", ChainParentSchemaId(registry, ref))
    ELSE Val("value")

PassthroughReadDone ==
    /\ Running(PassthroughReads, "wait_pass")
    /\ Return(ReadValue(Top.fn, Top.ref))
    /\ UNCHANGED <<codecVars, viemVars, warnings, chainId, clientChain, hasWallet, transport, request, registry, calls, lk>>

\* The returned promise rejects: no await, so the catch block never sees it.
PassthroughReadFailed ==
    /\ Running(PassthroughReads, "wait_pass")
    /\ Return(Thrown("ReadFailed"))
    /\ UNCHANGED <<codecVars, viemVars, warnings, chainId, clientChain, hasWallet, transport, request, registry, calls, lk>>

\* ------------------------------------------------------------- data reads

\* `const rawData = await this.viem.readContract(...)`
DataRead ==
    /\ Running(DataReads \cup {"getByKey"}, "body")
    /\ Issue(Call("read", ContractFunction(Top.fn), Top.ref, Top.idx))
    /\ Goto("wait_read")
    /\ UNCHANGED <<codecVars, viemVars, warnings, chainId, clientChain, hasWallet, transport, request, registry, ret, result, lk>>

\* The read answers with a payload list: `return this.deserialiseRawData(...)`.
DataReadDone ==
    /\ Running(DataReads, "wait_read")
    /\ Top.idx >= 0
    /\ \E raw \in RawLists :
        /\ Top.fn \in {"getAtIndex", "getLastPublishedDataForSchema"} => Len(raw) = 1
        /\ Push(Frame("deserialiseRawData", Top.ref, Top.addr, 0, raw), "tail")
    /\ UNCHANGED <<codecVars, viemVars, warnings, chainId, clientChain, hasWallet, transport, request, registry, ret, calls, result, lk>>

\* The awaited read throws inside the try block.
DataReadFailed ==
    /\ Running(DataReads \cup {"getByKey"}, "wait_read")
    /\ Return(Err("ReadFailed"))
    /\ UNCHANGED <<codecVars, viemVars, warnings, chainId, clientChain, hasWallet, transport, request, registry, calls, lk>>

\* A function that ended in `return f(...)` settles as f did.
TailReturn ==
    /\ stack # <<>>
    /\ Top.pc = "tail"
    /\ ret.kind # "none"
    /\ Return(ret)
    /\ UNCHANGED <<codecVars, viemVars, warnings, chainId, clientChain, hasWallet, transport, request, registry, calls, lk>>

\* --------------------------------------------------------------- getByKey

\* const adjustedIndex = index - BigInt(1)
AdjustedIndex(index) == index - 1

\* publisherDataIndex answers n, kept in the frame's idx (the local `index`):
\* `return this.getAtIndex(.., adjustedIndex)`
KeyIndexRead ==
    /\ Running({"getByKey"}, "wait_read")
    /\ \E n \in 0..MaxIndex :
        stack' = <<Frame("getAtIndex", Top.ref, Top.addr, AdjustedIndex(n), <<>>),
                   [Top EXCEPT !.pc = "tail", !.idx = n]>> \o Tail(stack)
    /\ UNCHANGED <<codecVars, viemVars, warnings, chainId, clientChain, hasWallet, transport, request, registry, ret, calls, result, lk>>

\* ------------------------------------- getByKey and getAtIndex, earlier variant

\* `const index = await this.viem.readContract(.., "publisherDataIndex", ..)`
EarlierKeyRead ==
    /\ Running({"getByKey (earlier variant)"}, "body")
    /\ Issue(Call("read", "publisherDataIndex", Top.ref, 0))
    /\ Goto("wait_read")
    /\ UNCHANGED <<codecVars, viemVars, warnings, chainId, clientChain, hasWallet, transport, request, registry, ret, result, lk>>

\* publisherDataIndex answers n: `return this.getAtIndex(schemaId, publisher, index)`
EarlierKeyIndexRead ==
    /\ Running({"getByKey (earlier variant)"}, "wait_read")
    /\ \E n \in 0..MaxIndex :
        stack' = <<Frame("getAtIndex (earlier variant)", Top.ref, Top.addr, n, <<>>),
                   [Top EXCEPT !.pc = "tail", !.idx = n]>> \o Tail(stack)
    /\ UNCHANGED <<codecVars, viemVars, warnings, chainId, clientChain, hasWallet, transport, request, registry, ret, calls, result, lk>>

\* Promise.all([getPublisherDataForSchemaAtIndex(schemaId, publisher, idx),
\*              parentSchemaId(schemaId)])
EarlierAtIndexReads ==
    /\ Running({"getAtIndex (earlier variant)"}, "body")
    /\ calls' = calls \o <<Call("read", "getPublisherDataForSchemaAtIndex", Top.ref, Top.idx),
                           Call("read", "parentSchemaId", Top.ref, 0)>>
    /\ Goto("wait_read")
    /\ UNCHANGED <<codecVars, viemVars, warnings, chainId, clientChain, hasWallet, transport, request, registry, ret, result, lk>>

\* Both reads answer; localAndOnchainSchemaLookup asks schemaReverseLookup for
\* the identifier (the references handed to this variant are hex identifiers).
EarlierAtIndexLookup ==
    /\ Running({"getAtIndex (earlier variant)"}, "wait_read")
    /\ Top.idx >= 0
    /\ ~IsLiteralSchema(Top.ref)
    /\ \E raw \in RawLists :
        /\ Len(raw) = 1
        /\ stack' = <<[Top EXCEPT !.pc = "wait_lookup", !.raw = raw]>> \o Tail(stack)
    /\ Issue(Call("read", "schemaReverseLookup", Top.ref, 0))
    /\ UNCHANGED <<codecVars, viemVars, warnings, chainId, clientChain, hasWallet, transport, request, registry, ret, result, lk>>

\* The earlier deserialiseRawData from its schema text on: decoded items when
\* the schema text is not empty, else the raw data; null when decoding throws.
EarlierDeserialise(schema, parentSchema, rawData) ==
    IF schema # <<>>
    THEN LET finalSchema == IF parentSchema # <<>>
                            THEN schema \o <<",", " ">> \o parentSchema
                            ELSE schema
         IN IF \E i \in 1..Len(rawData) : DecodeThrows(finalSchema, rawData[i])
            THEN Val("null")
            ELSE ValDecoded([i \in 1..Len(rawData) |-> DecodeData(finalSchema, rawData[i])])
    ELSE ValRaw(rawData)

\* The schema text arrives; deserialiseRawData reads the parent's text when
\* parentSchemaId is not zero.
EarlierAtIndexSchemaRead ==
    /\ Running({"getAtIndex (earlier variant)"}, "wait_lookup")
    /\ IF ChainParentSchemaId(registry, Top.ref) # zeroBytes32
       THEN /\ Issue(Call("read", "schemaReverseLookup",
                          ChainParentSchemaId(registry, Top.ref), 0))
            /\ Goto("wait_parent")
            /\ UNCHANGED <<ret, result>>
       ELSE /\ Return(EarlierDeserialise(ChainReverseLookup(registry, Top.ref), <<>>, Top.raw))
            /\ UNCHANGED calls
    /\ UNCHANGED <<codecVars, viemVars, warnings, chainId, clientChain, hasWallet, transport, request, registry, lk>>

\* The parent's text arrives.
EarlierAtIndexParentRead ==
    /\ Running({"getAtIndex (earlier variant)"}, "wait_parent")
    /\ Return(EarlierDeserialise(ChainReverseLookup(registry, Top.ref),
                                 ChainReverseLookup(registry,
                                                    ChainParentSchemaId(registry, Top.ref)),
                                 Top.raw))
    /\ UNCHANGED <<codecVars, viemVars, warnings, chainId, clientChain, hasWallet, transport, request, registry, calls, lk>>

\* An awaited read of the earlier variant fails: console.error, then null.
EarlierReadFailed ==
    /\ Running(EarlierReadOps, "wait_read")
       \/ Running(EarlierReadOps, "wait_lookup")
       \/ Running(EarlierReadOps, "wait_parent")
    /\ Return(Val("null"))
    /\ UNCHANGED <<codecVars, viemVars, warnings, chainId, clientChain, hasWallet, transport, request, registry, calls, lk>>

\* ------------------------------------------------------------------ writes

\* The args array of the write: setAndEmitEvents passes
\* `[dataStreams, eventStreams]`.
WriteArgumentsMutant(fn, streams) ==
    IF fn = "setAndEmitEvents" THEN <<streams[2], streams[1]>> ELSE <<>>

WriteArguments(fn, streams) ==
    IF fn = "setAndEmitEvents" THEN <<streams[1], streams[2]>> ELSE <<>>

\* Viem.writeContract: null without a wallet client, else the write is sent.
WriteContract ==
    /\ Running(SimpleWrites, "body")
    /\ IF hasWallet
       THEN /\ Issue(Call("write", ContractFunction(Top.fn), WriteArguments(Top.fn, Top.raw), 0))
            /\ Goto("wait_write")
            /\ UNCHANGED <<ret, result>>
       ELSE /\ Return(Err("TxNull"))
            /\ UNCHANGED calls
    /\ UNCHANGED <<codecVars, viemVars, warnings, chainId, clientChain, hasWallet, transport, request, registry, lk>>

\* The wallet client answers with the transaction hash.
WriteDone ==
    /\ Running(WriteOps, "wait_write")
    /\ Return(Val("hash"))
    /\ UNCHANGED <<codecVars, viemVars, warnings, chainId, clientChain, hasWallet, transport, request, registry, calls, lk>>

\* The awaited write throws inside the try block.
WriteFailed ==
    /\ Running(WriteOps, "wait_write")
    /\ Return(Err("WriteFailed"))
    /\ UNCHANGED <<codecVars, viemVars, warnings, chainId, clientChain, hasWallet, transport, request, registry, calls, lk>>

\* The contract errors a call may throw, as the chain of viem errors from the
\* outermost to its innermost cause.
ContractFunctionRevertedError ==
    [class |-> "ContractFunctionRevertedError", errorName |-> "NotOwner", args |-> <<"arg1">>]

ContractFunctionExecutionError ==
    [class |-> "ContractFunctionExecutionError", errorName |-> "", args |-> <<>>]

Reverts ==
    {<<ContractFunctionRevertedError>>,
     <<ContractFunctionExecutionError, ContractFunctionRevertedError>>}

\* The context an operation's catch block hands maybeLogContractError; "" for
\* a catch block that does not call it.
LogContext(fn) ==
    CASE fn = "manageEventEmittersForRegisteredStreamsEvent" -> "Failed to manage event emitter"
      [] fn = "setIsEventEmissionOpen" -> "Failed to manage event emission"
      [] fn = "setAndEmitEvents" -> "Failed to publish data and emit events"
      [] fn = "registerEventSchemas" -> "Failed to register event schema"
      [] fn = "emitEvents" -> "Failed to emit events"
      [] fn = "getBetweenRange" -> "getBetweenRange: Failed to get data"
      [] fn = "registerDataSchemas" -> "Failed to manage event emitter"
      [] OTHER -> ""

\* maybeLogContractError(e, context): what it writes with console.warn
maybeLogContractError(e, context) ==
    IF \E i \in 1..Len(e) : e[i].class = "ContractFunctionRevertedError"
    THEN LET revertError ==
                e[CHOOSE i \in 1..Len(e) : e[i].class = "ContractFunctionRevertedError"]
         IN  <<[context |-> context, errorName |-> revertError.errorName,
                args |-> revertError.args]>>
    ELSE <<>>

\* The catch block of fn on the contract error e.
CatchLogs(fn, e) ==
    IF LogContext(fn) # "" THEN maybeLogContractError(e, LogContext(fn)) ELSE <<>>

\* The awaited write reverts: the catch block logs, if it does, and returns
\* the error.
WriteReverted ==
    /\ Running(WriteOps, "wait_write")
    /\ \E e \in Reverts : warnings' = warnings \o CatchLogs(Top.fn, e)
    /\ Return(Err("Reverted"))
    /\ UNCHANGED <<codecVars, viemVars, chainId, clientChain, hasWallet, transport, request, registry, calls, lk>>

\* The awaited data read reverts.
DataReadReverted ==
    /\ Running(DataReads \cup {"getByKey"}, "wait_read")
    /\ \E e \in Reverts : warnings' = warnings \o CatchLogs(Top.fn, e)
    /\ Return(Err("Reverted"))
    /\ UNCHANGED <<codecVars, viemVars, chainId, clientChain, hasWallet, transport, request, registry, calls, lk>>

\* ---------------------------------------------------------------- subscribe

\* this.viem.client.public.transport.type !== "webSocket"
WebSocketRequiredMutant(type) == FALSE

WebSocketRequired(type) == type # "webSocket"

\* `return webSocketClient.transport.subscribe({ params, onData, onError })`
StartSubscription(topics) ==
    /\ Issue(Call("subscribe", "somnia_watch", topics, 0))
    /\ Goto("wait_subscribe")

\* subscribe after the binding, up to the event-schema read or the subscription.
SubscribeBody ==
    /\ Running(SubscribeOps, "body")
    /\ LET streamsProtocolAddress == getContractAddress(chainId)
           eventSource == IF Top.addr # <<>> THEN Top.addr ELSE streamsProtocolAddress
       IN  IF \/ WebSocketRequired(transport)
              \/ assertAddressIsValid(eventSource) # "ok"
              \/ eventSource = streamsProtocolAddress /\ Top.raw = <<>> /\ Top.ref = <<>>
              \/ eventSource # streamsProtocolAddress /\ Top.raw = <<>>
           THEN /\ Return(Caught(Top.fn, "SubscribeFailed"))
                /\ UNCHANGED calls
           ELSE IF eventSource = streamsProtocolAddress /\ Top.raw = <<>>
           THEN /\ Push(Frame("getEventSchemasById", Top.ref, GoodAddress, 0, <<>>),
                        "await_schemas")
                /\ UNCHANGED <<ret, calls, result>>
           ELSE /\ StartSubscription(Top.raw)
                /\ UNCHANGED <<ret, result>>
    /\ UNCHANGED <<codecVars, viemVars, warnings, chainId, clientChain, hasWallet, transport, request, registry, lk>>

\* `await this.getEventSchemasById([somniaStreamsEventId])` settles.
SubscribeSchemasRead ==
    /\ Running(SubscribeOps, "await_schemas")
    /\ ret.kind # "none"
    /\ IF ret.kind = "value"
       THEN /\ StartSubscription(<<"eventTopic">>)
            /\ ret' = NoRet
            /\ UNCHANGED result
       ELSE /\ Return(Caught(Top.fn, "SubscribeFailed"))
            /\ UNCHANGED calls
    /\ UNCHANGED <<codecVars, viemVars, warnings, chainId, clientChain, hasWallet, transport, request, registry, lk>>

\* The transport answers with the subscription.
SubscribeDone ==
    /\ Running(SubscribeOps, "wait_subscribe")
    /\ Return(Val("subscription"))
    /\ UNCHANGED <<codecVars, viemVars, warnings, chainId, clientChain, hasWallet, transport, request, registry, calls, lk>>

\* The returned promise rejects: no await, so the catch block never sees it.
SubscribeRejected ==
    /\ Running(SubscribeOps, "wait_subscribe")
    /\ Return(Thrown("SubscribeFailed"))
    /\ UNCHANGED <<codecVars, viemVars, warnings, chainId, clientChain, hasWallet, transport, request, registry, calls, lk>>

\* The transport delivers a notification of a started subscription to onData.
OnData ==
    /\ \E i \in 1..Len(calls) : calls[i].kind = "subscribe"
    /\ \A i \in 1..Len(calls) : calls[i].kind # "callback"
    /\ Issue(Call("callback", "onData", <<>>, 0))
    /\ UNCHANGED <<codecVars, viemVars, warnings, chainId, clientChain, hasWallet, transport, request, registry, stack, ret, result, lk>>

\* The earlier `set`: `return this.viem.writeContract(...)`, which is null
\* without a wallet client.
EarlierSet ==
    /\ Running(EarlierVariantOps, "body")
    /\ IF hasWallet
       THEN /\ Issue(Call("write", ContractFunction(Top.fn), <<>>, 0))
            /\ Goto("wait_write")
            /\ UNCHANGED <<ret, result>>
       ELSE /\ Return(Val("null"))
            /\ UNCHANGED calls
    /\ UNCHANGED <<codecVars, viemVars, warnings, chainId, clientChain, hasWallet, transport, request, registry, lk>>

EarlierSetDone ==
    /\ Running(EarlierVariantOps, "wait_write")
    /\ Return(Val("hash"))
    /\ UNCHANGED <<codecVars, viemVars, warnings, chainId, clientChain, hasWallet, transport, request, registry, calls, lk>>

\* The returned promise rejects: no await, so the catch block never sees it.
EarlierSetFailed ==
    /\ Running(EarlierVariantOps, "wait_write")
    /\ Return(Thrown("WriteFailed"))
    /\ UNCHANGED <<codecVars, viemVars, warnings, chainId, clientChain, hasWallet, transport, request, registry, calls, lk>>

\* getSomniaDataStreamsProtocolInfo returns { address, abi, chainId }.
ProtocolInfo ==
    /\ Running({"getSomniaDataStreamsProtocolInfo"}, "body")
    /\ Return(Val("info"))
    /\ UNCHANGED <<codecVars, viemVars, warnings, chainId, clientChain, hasWallet, transport, request, registry, calls, lk>>

\* ------------------------------------------------------------ schemaLookup

\* Promise.all([schemaReverseLookup(schemaId) or the reference, parentSchemaId(schemaId)])
StartLookupReadsMutant(schemaId, onchain, ref) ==
    /\ lk' = [NoLookup EXCEPT
                !.schemaId = schemaId,
                !.onchain = onchain,
                !.base = IF onchain THEN Pending("pending", <<>>) ELSE Pending("ok", ref),
                !.par = Pending("pending", <<>>)]
    /\ calls' = calls
                \o (IF onchain
                    THEN <<Call("read", "schemaReverseLookup", schemaId, 0)>>
                    ELSE <<Call("read", "parentSchemaId", schemaId, 0)>>)

StartLookupReads(schemaId, onchain, ref) ==
    /\ lk' = [NoLookup EXCEPT
                !.schemaId = schemaId,
                !.onchain = onchain,
                !.base = IF onchain THEN Pending("pending", <<>>) ELSE Pending("ok", ref),
                !.par = Pending("pending", <<>>)]
    /\ calls' = calls
                \o (IF onchain
                    THEN <<Call("read", "schemaReverseLookup", schemaId, 0)>>
                    ELSE <<>>)
                \o <<Call("read", "parentSchemaId", schemaId, 0)>>

\* deserialiseRawData and getSchemaFromSchemaId call schemaLookup and await it.
CallLookup ==
    /\ Running({"deserialiseRawData", "getSchemaFromSchemaId"}, "body")
    /\ Push(Frame("schemaLookup", Top.ref, Top.addr, 0, <<>>), "await_lookup")
    /\ UNCHANGED <<codecVars, viemVars, warnings, chainId, clientChain, hasWallet, transport, request, registry, ret, calls, result, lk>>

\* schemaLookup settles with r, its reads being as in l.
LookupSettles(r, l) ==
    /\ Return(r)
    /\ lk' = [l EXCEPT !.out = r]

\* schemaRef.trim().length === 0
IsBlankReferenceMutant(ref) == Len(ref) = 0

IsBlankReference(ref) == Len(Trim(ref)) = 0

\* schemaLookup up to its first await.
LookupEnter ==
    /\ Running({"schemaLookup"}, "entry")
    /\ IF IsBlankReference(Top.ref)
       THEN /\ LookupSettles(Thrown("InvalidSchemaReference"), lk)
            /\ UNCHANGED calls
       ELSE IF IsLiteralSchema(Top.ref)
       THEN /\ Push(Frame("computeSchemaId", Top.ref, Top.addr, 0, <<>>), "await_compute")
            /\ UNCHANGED <<ret, calls, result, lk>>
       ELSE /\ StartLookupReads(Top.ref, TRUE, Top.ref)
            /\ Goto("join")
            /\ UNCHANGED <<ret, result>>
    /\ UNCHANGED <<codecVars, viemVars, warnings, chainId, clientChain, hasWallet, transport, request, registry>>

\* `await this.computeSchemaId(schemaRef)` settles.
LookupComputed ==
    /\ Running({"schemaLookup"}, "await_compute")
    /\ ret.kind # "none"
    /\ IF ret.kind = "thrown"
       THEN /\ LookupSettles(Thrown(ret.err), lk)
            /\ UNCHANGED calls
       ELSE IF ret.kind = "error"
       THEN /\ LookupSettles(ret, lk)
            /\ UNCHANGED calls
       ELSE IF ret.text = <<>>
       THEN /\ LookupSettles(Err("SchemaIdNotComputed"), lk)
            /\ UNCHANGED calls
       ELSE /\ StartLookupReads(ret.text, FALSE, Top.ref)
            /\ Goto("join")
            /\ ret' = NoRet
            /\ UNCHANGED result
    /\ UNCHANGED <<codecVars, viemVars, warnings, chainId, clientChain, hasWallet, transport, request, registry>>

\* The base schema text arrives.
BaseTextRead ==
    /\ Running({"schemaLookup"}, "join")
    /\ lk.base.st = "pending"
    /\ lk' = [lk EXCEPT !.base = Pending("ok", ChainReverseLookup(registry, lk.schemaId))]
    /\ UNCHANGED <<codecVars, viemVars, warnings, chainId, clientChain, hasWallet, transport, request, registry, stack, ret, calls, result>>

\* The parent identifier arrives.
ParentIdRead ==
    /\ Running({"schemaLookup"}, "join")
    /\ lk.par.st = "pending"
    /\ lk' = [lk EXCEPT !.par = Pending("ok", ChainParentSchemaId(registry, lk.schemaId))]
    /\ UNCHANGED <<codecVars, viemVars, warnings, chainId, clientChain, hasWallet, transport, request, registry, stack, ret, calls, result>>

\* One of the two reads fails: Promise.all rejects, schemaLookup has no try.
LookupReadFailed ==
    /\ Running({"schemaLookup"}, "join")
    /\ \/ /\ lk.base.st = "pending"
          /\ LookupSettles(Thrown("ReadFailed"), [lk EXCEPT !.base = Pending("failed", <<>>)])
       \/ /\ lk.par.st = "pending"
          /\ LookupSettles(Thrown("ReadFailed"), [lk EXCEPT !.par = Pending("failed", <<>>)])
    /\ UNCHANGED <<codecVars, viemVars, warnings, chainId, clientChain, hasWallet, transport, request, registry, calls>>

\* schemaLookup's return once the base text and the parent text (if read) are known.
LookupReturn(read, parent, l) ==
    IF FinalSchemaError(lk.base.val, read, parent) # ""
    THEN LookupSettles(Err(FinalSchemaError(lk.base.val, read, parent)), l)
    ELSE LookupSettles(ValSchema(lk.base.val, FinalSchema(lk.base.val, read, parent),
                                 lk.schemaId), l)

\* Both reads are in: the registration check and the parent lookup.
LookupJoined ==
    /\ Running({"schemaLookup"}, "join")
    /\ lk.base.st = "ok" /\ lk.par.st = "ok"
    /\ IF BaseNotRegistered(lk.onchain, lk.base.val)
       THEN /\ LookupSettles(Err("SchemaNotRegistered"), lk)
            /\ UNCHANGED calls
       ELSE IF HasParent(lk.par.val)
       THEN /\ Issue(Call("read", "schemaReverseLookup", lk.par.val, 0))
            /\ lk' = [lk EXCEPT !.ptext = Pending("pending", <<>>)]
            /\ Goto("parent")
            /\ UNCHANGED <<ret, result>>
       ELSE /\ LookupReturn(FALSE, <<>>, lk)
            /\ UNCHANGED calls
    /\ UNCHANGED <<codecVars, viemVars, warnings, chainId, clientChain, hasWallet, transport, request, registry>>

\* The parent schema text arrives.
ParentTextRead ==
    /\ Running({"schemaLookup"}, "parent")
    /\ LookupReturn(TRUE, ChainReverseLookup(registry, lk.par.val),
                    [lk EXCEPT !.ptext = Pending("ok", ChainReverseLookup(registry, lk.par.val))])
    /\ UNCHANGED <<codecVars, viemVars, warnings, chainId, clientChain, hasWallet, transport, request, registry, calls>>

\* The parent text read fails.
ParentTextFailed ==
    /\ Running({"schemaLookup"}, "parent")
    /\ LookupSettles(Thrown("ReadFailed"), [lk EXCEPT !.ptext = Pending("failed", <<>>)])
    /\ UNCHANGED <<codecVars, viemVars, warnings, chainId, clientChain, hasWallet, transport, request, registry, calls>>

\* deserialiseRawData resumes after `await this.schemaLookup(...)`.
DeserialiseResume ==
    /\ Running({"deserialiseRawData"}, "await_lookup")
    /\ ret.kind # "none"
    /\ Return(DeserialiseOutcome(ret, Top.raw))
    /\ UNCHANGED <<codecVars, viemVars, warnings, chainId, clientChain, hasWallet, transport, request, registry, calls, lk>>

\* getSchemaFromSchemaId resumes after `await this.schemaLookup(...)`.
GetSchemaResume ==
    /\ Running({"getSchemaFromSchemaId"}, "await_lookup")
    /\ ret.kind # "none"
    /\ Return(GetSchemaOutcome(ret))
    /\ UNCHANGED <<codecVars, viemVars, warnings, chainId, clientChain, hasWallet, transport, request, registry, calls, lk>>

\* ------------------------------------------------------ registerDataSchemas

Task(st, id, registered) == [st |-> st, id |-> id, registered |-> registered]

SetTasks(tasks) ==
    stack' = <<[Top EXCEPT !.regs.tasks = tasks]>> \o Tail(stack)

\* schemasToRegister.length === 0
NothingToRegisterMutant(list) == FALSE

NothingToRegister(list) == Len(list) = 0

\* From `if (schemasToRegister.length === 0)` on: the registerSchemas write.
RegisterWrite(list) ==
    IF NothingToRegister(list)
    THEN /\ Return(Err("NothingToRegister"))
         /\ UNCHANGED calls
    ELSE IF ~hasWallet
    THEN /\ Return(Err("TxNull"))
         /\ UNCHANGED calls
    ELSE /\ Issue([Call("write", "registerSchemas", <<>>, 0) EXCEPT !.regs = list])
         /\ Goto("wait_write")
         /\ UNCHANGED <<ret, result>>

\* registerDataSchemas after the binding: the write, or one task per registration,
\* each starting with its computeSchemaId read.
RegisterBody ==
    /\ Running({"registerDataSchemas"}, "body")
    /\ LET list == Top.regs.list IN
       IF Top.regs.ignore /\ list # <<>>
       THEN /\ calls' = calls \o [i \in 1..Len(list) |->
                                    Call("read", "computeSchemaId", list[i].schema, 0)]
            /\ stack' = <<[Top EXCEPT
                             !.pc = "tasks",
                             !.regs.tasks = [i \in 1..Len(list) |->
                                               Task("computing", <<>>, FALSE)]]>>
                        \o Tail(stack)
            /\ UNCHANGED <<ret, result>>
       ELSE RegisterWrite([i \in 1..Len(list) |-> DefaultParent(list[i])])
    /\ UNCHANGED <<codecVars, viemVars, warnings, chainId, clientChain, hasWallet, transport, request, registry, lk>>

\* A task's computeSchemaId answers: it asks isSchemaRegistered for that id.
TaskComputed ==
    /\ Running({"registerDataSchemas"}, "tasks")
    /\ \E i \in 1..Len(Top.regs.tasks) :
        /\ Top.regs.tasks[i].st = "computing"
        /\ LET id == ChainComputeSchemaId(Top.regs.list[i].schema) IN
           /\ Issue(Call("read", "isSchemaRegistered", id, 0))
           /\ SetTasks([Top.regs.tasks EXCEPT ![i] = Task("checking", id, FALSE)])
    /\ UNCHANGED <<codecVars, viemVars, warnings, chainId, clientChain, hasWallet, transport, request, registry, ret, result, lk>>

\* A task's isSchemaRegistered answers.
TaskChecked ==
    /\ Running({"registerDataSchemas"}, "tasks")
    /\ \E i \in 1..Len(Top.regs.tasks), b \in BOOLEAN :
        /\ Top.regs.tasks[i].st = "checking"
        /\ SetTasks([Top.regs.tasks EXCEPT ![i] = Task("done", @.id, b)])
    /\ UNCHANGED <<codecVars, viemVars, warnings, chainId, clientChain, hasWallet, transport, request, registry, ret, calls, result, lk>>

\* A task's read fails: Promise.all rejects inside the try block.
TaskFailed ==
    /\ Running({"registerDataSchemas"}, "tasks")
    /\ \E i \in 1..Len(Top.regs.tasks) : Top.regs.tasks[i].st # "done"
    /\ Return(Err("ReadFailed"))
    /\ UNCHANGED <<codecVars, viemVars, warnings, chainId, clientChain, hasWallet, transport, request, registry, calls, lk>>

\* Promise.all resolves: only the unregistered schemas are written.
TasksJoined ==
    /\ Running({"registerDataSchemas"}, "tasks")
    /\ \A i \in 1..Len(Top.regs.tasks) : Top.regs.tasks[i].st = "done"
    /\ RegisterWrite(Unregistered(Top.regs.list, Top.regs.tasks))
    /\ UNCHANGED <<codecVars, viemVars, warnings, chainId, clientChain, hasWallet, transport, request, registry, lk>>

\* ---------------------------------------------------- the codec: text and bytes

\* String.prototype.startsWith / endsWith
StartsWith(s, pre) == Len(s) >= Len(pre) /\ SubSeq(s, 1, Len(pre)) = pre

EndsWith(s, suf) == Len(s) >= Len(suf) /\ SubSeq(s, Len(s) - Len(suf) + 1, Len(s)) = suf

\* The type names of the encoder, as text.
TUPLE_TYPE == <<"t", "u", "p", "l", "e">>
BYTES32 == <<"b", "y", "t", "e", "s", "3", "2">>
ADDRESS == <<"a", "d", "d", "r", "e", "s", "s">>
BOOL == <<"b", "o", "o", "l">>
UINT256 == <<"u", "i", "n", "t", "2", "5", "6">>
STRING_TYPE == <<"s", "t", "r", "i", "n", "g">>
ArraySuffix == <<"[", "]">>

HexDigits == <<"0", "1", "2", "3", "4", "5", "6", "7", "8", "9",
               "a", "b", "c", "d", "e", "f">>

UpperHexDigits == <<"0", "1", "2", "3", "4", "5", "6", "7", "8", "9",
                    "A", "B", "C", "D", "E", "F">>

\* The value of one hex digit, either case.
HexValue(c) ==
    (CHOOSE i \in 1..16 : HexDigits[i] = c \/ UpperHexDigits[i] = c) - 1

\* String.prototype.toLowerCase / toUpperCase on hex text
ToLowerCase(s) == [i \in 1..Len(s) |-> IF s[i] \in HexChars THEN HexDigits[HexValue(s[i]) + 1]
                                        ELSE s[i]]

UpperDigit(c) == IF c \in HexChars THEN UpperHexDigits[HexValue(c) + 1] ELSE c

\* viem isHex(value): /^0x[0-9a-fA-F]*$/
isHex(s) == StartsWith(s, HexPrefix) /\ \A i \in 3..Len(s) : s[i] \in HexChars

\* Bytes are numbers 0..255.  The hex text of a byte sequence, and back.
BytesToHex(bytes) ==
    [i \in 1..(2 * Len(bytes)) |->
        IF i % 2 = 1 THEN HexDigits[(bytes[(i + 1) \div 2] \div 16) + 1]
        ELSE HexDigits[(bytes[i \div 2] % 16) + 1]]

HexToBytes(hex) ==
    [i \in 1..((Len(hex) - 2) \div 2) |->
        16 * HexValue(hex[2 * i + 1]) + HexValue(hex[2 * i + 2])]

\* TextEncoder / TextDecoder on the characters the model writes strings in.
CharCode(c) ==
    IF c = " " THEN 32 ELSE 96 + (CHOOSE i \in 1..Len(Letters) : Letters[i] = c)

CharOfCode(n) == IF n = 32 THEN " " ELSE Letters[n - 96]

Zeros(n) == [i \in 1..n |-> 0]

\* viem pad(bytes, { dir: 'right', size })
PadRight(bytes, size) == bytes \o Zeros(size - Len(bytes))

\* viem stringToHex(value, { size }): the UTF-8 bytes, zero-padded on the right
stringToHex(value, size) ==
    HexPrefix \o BytesToHex(PadRight([i \in 1..Len(value) |-> CharCode(value[i])], size))

\* The i-th nibble of keccak256 of the text.  The hash itself is out of
\* reach; any fixed function of the text and the position has what
\* checksumming needs.
Keccak256Nibble(text, i) == (HexValue(text[i]) + 3 * i) % 16

\* viem checksumAddress: a digit is upper case where the hash nibble is >= 8
checksumAddress(a) ==
    LET lower == SubSeq(ToLowerCase(a), 3, Len(a)) IN
    HexPrefix \o [i \in 1..Len(lower) |->
                    IF Keccak256Nibble(lower, i) >= 8 THEN UpperDigit(lower[i])
                    ELSE lower[i]]

\* viem getAddress on a well-formed address
getAddress(a) == checksumAddress(a)

\* ------------------------------------------------------- the codec: values

\* A JavaScript value with its dynamic type.
\* (k: typeof / Array.isArray; s: a string's characters; n: a number; b: a
\* boolean; e: the elements of an array or the property values of an object)
Value(k, s, n, b, e) == [k |-> k, s |-> s, n |-> n, b |-> b, e |-> e]

Str(chars) == Value("string", chars, 0, FALSE, <<>>)
Num(n) == Value("bigint", <<>>, n, FALSE, <<>>)
Bool(b) == Value("boolean", <<>>, 0, b, <<>>)
Arr(elems) == Value("array", <<>>, 0, FALSE, elems)
Obj(elems) == Value("object", <<>>, 0, FALSE, elems)
Undefined == Value("undefined", <<>>, 0, FALSE, <<>>)

\* value[i] in JavaScript: undefined off an array's end and on an object
Index(value, i) ==
    IF value.k = "array" /\ i \in 1..Len(value.e) THEN value.e[i] ELSE Undefined

\* { name, type, value }
SchemaItem(name, type, value) == [k |-> "item", name |-> name, type |-> type, v |-> value]

\* An AbiParameter as parseAbi gives it; components only on tuples.
AbiParameter(type, name, hasComponents, components) ==
    [type |-> type, name |-> name, hasComponents |-> hasComponents,
     components |-> components]

Primitive(type, name) == AbiParameter(type, name, FALSE, <<>>)

RECURSIVE stripAbiNames(_)
stripAbiNames(params) ==
    [i \in 1..Len(params) |->
        IF params[i].hasComponents
        THEN AbiParameter(params[i].type, "", TRUE, stripAbiNames(params[i].components))
        ELSE Primitive(params[i].type, "")]

\* ---------------------------------------------- the codec: the ABI encoding

\* The big-endian bytes of n, len of them.  The numbers of the model fit the
\* last four bytes.
NumToBytes(n, len) ==
    [i \in 1..len |-> IF len - i > 3 THEN 0 ELSE (n \div (256 ^ (len - i))) % 256]

\* The number big-endian bytes stand for; one beyond four bytes reads as the
\* largest number there is.
BytesToNum(bytes) ==
    LET last == Len(bytes)
        byte(i) == IF i >= 1 THEN bytes[i] ELSE 0
    IN IF (\E i \in 1..(last - 4) : bytes[i] # 0) \/ byte(last - 3) >= 128
       THEN 2147483647
       ELSE byte(last) + 256 * byte(last - 1) + 65536 * byte(last - 2)
            + 16777216 * byte(last - 3)

WordSize == 32

Word(n) == NumToBytes(n, WordSize)

\* bytes[pos .. pos + len - 1], pos counting from 0
Slice(bytes, pos, len) == SubSeq(bytes, pos + 1, pos + len)

ElementParam(p) == [p EXCEPT !.type = SubSeq(p.type, 1, Len(p.type) - 2)]

RECURSIVE IsDynamic(_)
IsDynamic(p) ==
    \/ p.type = STRING_TYPE
    \/ EndsWith(p.type, ArraySuffix)
    \/ p.hasComponents /\ \E i \in 1..Len(p.components) : IsDynamic(p.components[i])

RECURSIVE HeadSize(_)
RECURSIVE HeadSizes(_)

\* The bytes a parameter takes in the head of its enclosing tuple.
HeadSize(p) ==
    IF IsDynamic(p) THEN WordSize
    ELSE IF p.hasComponents THEN HeadSizes(p.components)
    ELSE WordSize

HeadSizes(ps) == IF ps = <<>> THEN 0 ELSE HeadSize(Head(ps)) + HeadSizes(Tail(ps))

\* The offset of parameter i's head within the heads of ps.
HeadOffset(ps, i) == HeadSizes(SubSeq(ps, 1, i - 1))

RECURSIVE EncodeParam(_, _)
RECURSIVE EncodeParams(_, _)
RECURSIVE TailsUpTo(_, _, _)
RECURSIVE HeadsUpTo(_, _, _)

\* viem encodeAbiParameters for one parameter
EncodeParam(p, value) ==
    IF EndsWith(p.type, ArraySuffix)
    THEN Word(Len(value.e))
         \o EncodeParams([i \in 1..Len(value.e) |-> ElementParam(p)], value.e)
    ELSE IF p.hasComponents THEN EncodeParams(p.components, value.e)
    ELSE IF p.type = ADDRESS THEN Zeros(12) \o HexToBytes(ToLowerCase(value.s))
    ELSE IF p.type = BOOL THEN Word(IF value.b THEN 1 ELSE 0)
    ELSE IF p.type = BYTES32 THEN PadRight(HexToBytes(value.s), WordSize)
    ELSE IF p.type = STRING_TYPE
    THEN Word(Len(value.s))
         \o PadRight([i \in 1..Len(value.s) |-> CharCode(value.s[i])],
                     ((Len(value.s) + WordSize - 1) \div WordSize) * WordSize)
    ELSE Word(value.n)

\* The tails of the first m parameters: the encodings of the dynamic ones.
TailsUpTo(ps, values, m) ==
    IF m = 0 THEN <<>>
    ELSE TailsUpTo(ps, values, m - 1)
         \o (IF IsDynamic(ps[m]) THEN EncodeParam(ps[m], values[m]) ELSE <<>>)

\* The heads of the first m parameters: a static parameter's encoding, a
\* dynamic parameter's offset to its tail.
HeadsUpTo(ps, values, m) ==
    IF m = 0 THEN <<>>
    ELSE HeadsUpTo(ps, values, m - 1)
         \o (IF IsDynamic(ps[m])
             THEN Word(HeadSizes(ps) + Len(TailsUpTo(ps, values, m - 1)))
             ELSE EncodeParam(ps[m], values[m]))

EncodeParams(ps, values) ==
    HeadsUpTo(ps, values, Len(ps)) \o TailsUpTo(ps, values, Len(ps))

encodeAbiParameters(ps, values) == EncodeParams(ps, values)

RECURSIVE DecodeParam(_, _, _)
RECURSIVE DecodeParams(_, _, _)

\* viem decodeAbiParameters for one parameter whose data starts at pos
DecodeParam(p, data, pos) ==
    IF EndsWith(p.type, ArraySuffix)
    THEN LET n == BytesToNum(Slice(data, pos, WordSize)) IN
         Arr(DecodeParams([i \in 1..n |-> ElementParam(p)], data, pos + WordSize))
    ELSE IF p.hasComponents
    THEN IF \E i \in 1..Len(p.components) : p.components[i].name = ""
         THEN Arr(DecodeParams(p.components, data, pos))
         ELSE Obj(DecodeParams(p.components, data, pos))
    ELSE IF p.type = ADDRESS
    THEN Str(checksumAddress(HexPrefix \o BytesToHex(Slice(data, pos + 12, 20))))
    ELSE IF p.type = BOOL THEN Bool(BytesToNum(Slice(data, pos, WordSize)) # 0)
    ELSE IF p.type = BYTES32 THEN Str(HexPrefix \o BytesToHex(Slice(data, pos, WordSize)))
    ELSE IF p.type = STRING_TYPE
    THEN LET n == BytesToNum(Slice(data, pos, WordSize)) IN
         Str([i \in 1..n |-> CharOfCode(data[pos + WordSize + i])])
    ELSE Num(BytesToNum(Slice(data, pos, WordSize)))

\* The parameters of a tuple that starts at base: a dynamic one is found
\* through the offset in its head.
DecodeParams(ps, data, base) ==
    [i \in 1..Len(ps) |->
        IF IsDynamic(ps[i])
        THEN DecodeParam(ps[i], data,
                         base + BytesToNum(Slice(data, base + HeadOffset(ps, i), WordSize)))
        ELSE DecodeParam(ps[i], data, base + HeadOffset(ps, i))]

decodeAbiParameters(ps, data) == DecodeParams(ps, data, 0)

\* ------------------------------------------------------- the SchemaEncoder

RECURSIVE Join(_, _)
\* The text a.join(sep) of a sequence of texts.
Join(texts, sep) ==
    IF texts = <<>> THEN <<>>
    ELSE IF Len(texts) = 1 THEN texts[1]
    ELSE texts[1] \o sep \o Join(Tail(texts), sep)

\* input.name ? `${input.type} ${input.name}` : input.type; a name is one token
NameSuffix(name) == IF name = "" THEN <<>> ELSE <<" ", name>>

\* getDefaultValueForTypeName
getDefaultValueForTypeName(typeName) ==
    IF typeName = BOOL THEN Bool(FALSE)
    ELSE IF IndexOf(typeName, <<"i", "n", "t">>) # -1 THEN Num(0)
    ELSE IF typeName = ADDRESS THEN Str(zeroAddress)
    ELSE IF StartsWith(typeName, <<"b", "y", "t", "e", "s">>) THEN Str(HexPrefix)
    ELSE Str(<<>>)

\* The constructor's schema entry for one parsed parameter.
SchemaEntry(input) ==
    LET isArray == EndsWith(input.type, ArraySuffix)
        brackets == IF isArray THEN ArraySuffix ELSE <<>>
        isTuple == StartsWith(input.type, TUPLE_TYPE)
        comps == input.components
        type == IF isTuple
                THEN <<"(">> \o Join([i \in 1..Len(comps) |-> comps[i].type], <<",">>)
                     \o <<")">> \o brackets
                ELSE input.type
        signature ==
            IF isTuple
            THEN <<"(">>
                 \o Join([i \in 1..Len(comps) |-> comps[i].type \o NameSuffix(comps[i].name)],
                         <<",">>)
                 \o <<")">> \o brackets \o NameSuffix(input.name)
            ELSE input.type \o NameSuffix(input.name)
        typeName == IF ~isTuple /\ IndexOf(input.type, ArraySuffix) # -1
                    THEN SubSeq(input.type, 1, IndexOf(input.type, ArraySuffix))
                         \o SubSeq(input.type, IndexOf(input.type, ArraySuffix) + 3,
                                   Len(input.type))
                    ELSE input.type
    IN [name |-> input.name, type |-> type, signature |-> signature,
        value |-> IF IndexOf(type, ArraySuffix) # -1 THEN Arr(<<>>)
                  ELSE getDefaultValueForTypeName(typeName)]

\* this.schema after the constructor
SchemaOf(params) == [i \in 1..Len(params) |-> SchemaEntry(params[i])]

RECURSIVE recursivePrepareData(_, _, _)
recursivePrepareData(abiParam, value, providedType) ==
    IF EndsWith(abiParam.type, ArraySuffix) /\ value.k = "array"
    THEN Arr([i \in 1..Len(value.e) |->
                recursivePrepareData(ElementParam(abiParam), value.e[i], providedType)])
    ELSE IF StartsWith(abiParam.type, TUPLE_TYPE) /\ abiParam.hasComponents
    THEN IF value.k = "array"
         THEN Arr([i \in 1..Len(abiParam.components) |->
                     recursivePrepareData(abiParam.components[i], Index(value, i),
                                          abiParam.components[i].type)])
         ELSE value
    ELSE IF abiParam.type = BYTES32 /\ value.k = "string" /\ ~isHex(value.s)
    THEN Str(stringToHex(value.s, WordSize))
    ELSE IF abiParam.type = ADDRESS /\ value.k = "string"
    THEN Str(getAddress(value.s))
    ELSE value

RECURSIVE PrepareThrows(_, _)
\* recursivePrepareData throws: stringToHex on a text longer than the size,
\* getAddress on a malformed address.
PrepareThrows(abiParam, value) ==
    IF EndsWith(abiParam.type, ArraySuffix) /\ value.k = "array"
    THEN \E i \in 1..Len(value.e) : PrepareThrows(ElementParam(abiParam), value.e[i])
    ELSE IF StartsWith(abiParam.type, TUPLE_TYPE) /\ abiParam.hasComponents
    THEN /\ value.k = "array"
         /\ \E i \in 1..Len(abiParam.components) :
                PrepareThrows(abiParam.components[i], Index(value, i))
    ELSE IF abiParam.type = BYTES32 /\ value.k = "string" /\ ~isHex(value.s)
    THEN Len(value.s) > WordSize
    ELSE abiParam.type = ADDRESS /\ value.k = "string" /\ ~IsAddress(value.s)

ArityMismatchMutant(schema, params) == Len(params) < Len(schema)

\* params.length !== this.schema.length
ArityMismatch(schema, params) == Len(params) # Len(schema)

\* The error encodeData throws, "" when it returns: the arity check, or the
\* preparation of a value.
EncodeDataError(abi, params) ==
    IF ArityMismatch(SchemaOf(abi), params) THEN "InvalidNumberOfParameters"
    ELSE IF \E i \in 1..Len(abi) : PrepareThrows(abi[i], params[i].v) THEN "InvalidValue"
    ELSE ""

EncodeDataThrows(abi, params) == EncodeDataError(abi, params) # ""

encodeData(abi, params) ==
    encodeAbiParameters(abi,
        [i \in 1..Len(abi) |-> recursivePrepareData(abi[i], params[i].v, params[i].type)])

\* ------------------------------------- the SchemaEncoder, earlier variant

IPFS_HASH == <<"i", "p", "f", "s", "H", "a", "s", "h">>

\* type.replace(/\s/g, "")
RemoveWhitespace(s) == SelectSeq(s, LAMBDA c : c \notin Whitespace)

\* The declared type is neither the entry's type nor its signature, nor
\* ipfsHash against bytes32.
IncompatibleType(type, schemaItem) ==
    LET sanitizedType == RemoveWhitespace(type) IN
    /\ sanitizedType # schemaItem.type
    /\ sanitizedType # schemaItem.signature
    /\ ~(sanitizedType = IPFS_HASH /\ schemaItem.type = BYTES32)

\* What one round of encodeData's loop throws, "" when it pushes the value.
EarlierItemError(schemaItem, param) ==
    IF IncompatibleType(param.type, schemaItem) THEN "IncompatibleParamType"
    ELSE IF param.name # schemaItem.name THEN "IncompatibleParamName"
    ELSE IF /\ schemaItem.type = BYTES32 /\ param.v.k = "string" /\ ~isHex(param.v.s)
            /\ Len(param.v.s) > WordSize
    THEN "InvalidValue"
    ELSE ""

\* The value the loop pushes for an item.
EarlierData(schemaItem, value) ==
    IF schemaItem.type = BYTES32 /\ value.k = "string" /\ ~isHex(value.s)
    THEN Str(stringToHex(value.s, WordSize))
    ELSE value

RECURSIVE EncodeAbiThrows(_, _)
\* viem encodeAbiParameters rejects the value of a parameter: a value of the
\* wrong kind, an address that is malformed or wrongly checksummed, bytes32
\* that are not 32 bytes of hex.
EncodeAbiThrows(p, value) ==
    IF EndsWith(p.type, ArraySuffix)
    THEN \/ value.k # "array"
         \/ \E i \in 1..Len(value.e) : EncodeAbiThrows(ElementParam(p), value.e[i])
    ELSE IF p.hasComponents
    THEN \/ value.k # "array"
         \/ \E i \in 1..Len(p.components) : EncodeAbiThrows(p.components[i], Index(value, i))
    ELSE IF p.type = ADDRESS
    THEN \/ value.k # "string"
         \/ ~IsAddress(value.s)
         \/ ToLowerCase(value.s) # value.s /\ checksumAddress(value.s) # value.s
    ELSE IF p.type = BOOL THEN value.k # "boolean"
    ELSE IF p.type = BYTES32
    THEN value.k # "string" \/ ~isHex(value.s) \/ Len(value.s) # 2 + 2 * WordSize
    ELSE IF p.type = STRING_TYPE THEN value.k # "string"
    ELSE value.k # "bigint"

\* The error the earlier encodeData throws, "" when it returns.
EarlierEncodeDataError(abi, params) ==
    LET schema == SchemaOf(abi)
        failing == { i \in 1..Len(schema) : EarlierItemError(schema[i], params[i]) # "" }
    IN IF Len(params) # Len(schema) THEN "InvalidNumberOrValues"
       ELSE IF failing # {}
       THEN LET first == CHOOSE i \in failing : \A j \in failing : i <= j
            IN EarlierItemError(schema[first], params[first])
       ELSE IF \E i \in 1..Len(abi) :
                   EncodeAbiThrows(abi[i], EarlierData(schema[i], params[i].v))
       THEN "InvalidValue"
       ELSE ""

EarlierEncodeData(abi, params) ==
    encodeAbiParameters(abi,
        [i \in 1..Len(abi) |-> EarlierData(SchemaOf(abi)[i], params[i].v)])

RECURSIVE recursiveFormatDecodedData(_, _)
recursiveFormatDecodedData(param, value) ==
    IF param.hasComponents /\ EndsWith(param.type, ArraySuffix) /\ value.k = "array"
    THEN SchemaItem(param.name, param.type,
             Arr([j \in 1..Len(value.e) |->
                    Arr([c \in 1..Len(param.components) |->
                           recursiveFormatDecodedData(param.components[c],
                                                      Index(value.e[j], c))])]))
    ELSE IF param.hasComponents /\ value.k = "array"
    THEN SchemaItem(param.name, param.type,
             Arr([c \in 1..Len(param.components) |->
                    recursiveFormatDecodedData(param.components[c], Index(value, c))]))
    ELSE SchemaItem(param.name, param.type, value)

decodeData(abi, data) ==
    LET values == decodeAbiParameters(stripAbiNames(abi), data)
        schema == SchemaOf(abi)
    IN [i \in 1..Len(schema) |->
          [name |-> schema[i].name, type |-> schema[i].type,
           signature |-> schema[i].signature,
           value |-> recursiveFormatDecodedData(abi[i], values[i])]]

\* ------------------------------------------------------- the specification

Next ==
    \/ Invoke
    \/ Consume
    \/ Enter
    \/ GetChainId
    \/ ChainIdFetched
    \/ ChainIdFailed
    \/ ResolveBinding
    \/ PassthroughRead
    \/ PassthroughReadDone
    \/ PassthroughReadFailed
    \/ DataRead
    \/ DataReadDone
    \/ DataReadFailed
    \/ TailReturn
    \/ KeyIndexRead
    \/ EarlierKeyRead
    \/ EarlierKeyIndexRead
    \/ EarlierAtIndexReads
    \/ EarlierAtIndexLookup
    \/ EarlierAtIndexSchemaRead
    \/ EarlierAtIndexParentRead
    \/ EarlierReadFailed
    \/ WriteContract
    \/ WriteDone
    \/ WriteFailed
    \/ WriteReverted
    \/ SubscribeBody
    \/ SubscribeSchemasRead
    \/ SubscribeDone
    \/ SubscribeRejected
    \/ OnData
    \/ DataReadReverted
    \/ EarlierSet
    \/ EarlierSetDone
    \/ EarlierSetFailed
    \/ ProtocolInfo
    \/ CallLookup
    \/ LookupEnter
    \/ LookupComputed
    \/ BaseTextRead
    \/ ParentIdRead
    \/ LookupReadFailed
    \/ LookupJoined
    \/ ParentTextRead
    \/ ParentTextFailed
    \/ DeserialiseResume
    \/ GetSchemaResume
    \/ RegisterBody
    \/ TaskComputed
    \/ TaskChecked
    \/ TaskFailed
    \/ TasksJoined

Spec == Init /\ [][Next]_vars


\* ------------------------------------------------------------ observations

\* The public operation has settled and the application has not yet taken the result.
Done == stack = <<>> /\ result.kind # "none"

\* schemaLookup has settled in the course of the current operation.
LookupSettled == lk.out.kind # "none"

\* The contract reads of function fn issued by the current operation.
Reads(fn) == { i \in DOMAIN calls : calls[i].kind = "read" /\ calls[i].fn = fn }

\* The reference is a hex identifier.
HexRef(ref) == Len(ref) >= 2 /\ SubSeq(ref, 1, 2) = HexPrefix

\* The operations that end in deserialiseRawData.
DeserialisingOps == DataReads \cup {"getByKey", "deserialiseRawData"}

\* --------------------------------------------------------- schema resolution

\* C1: deserialiseRawData, and every reader that goes through it, answers the
\* raw payload only when schema resolution reported "schema not registered";
\* any other failure of the resolver makes the operation answer an Error.
C1_RawOnlyWhenNotRegistered ==
    (Done /\ request.op \in DeserialisingOps /\ LookupSettled /\ lk.out.kind # "value"
          /\ lk.out.err # "SchemaNotRegistered")
        => (result.kind = "error" /\ result.tag # "raw")

\* C2: with a hex reference whose reverse lookup answered the empty text,
\* resolution fails with "schema not registered" whatever the parent-id read
\* answered, and no record with an empty baseSchema or finalSchema is produced.
C2_EmptyBaseTextIsNotRegistered ==
    /\ (LookupSettled /\ HexRef(request.ref)
          /\ lk.base = Pending("ok", <<>>) /\ lk.par.st = "ok")
         => /\ lk.out = Err("SchemaNotRegistered")
            /\ (Done /\ request.op = "getSchemaFromSchemaId")
                 => result = Err("SchemaNotRegistered")
    /\ (LookupSettled /\ HexRef(request.ref) /\ lk.out.kind = "value")
         => (lk.out.base # <<>> /\ lk.out.final # <<>>)

C2_Witness ==
    /\ Done /\ request.op = "getSchemaFromSchemaId" /\ HexRef(request.ref)
    /\ lk.base = Pending("ok", <<>>)
    /\ lk.par.st = "ok" /\ lk.par.val # zeroBytes32
    /\ result = Err("SchemaNotRegistered")

\* C3: when the parent id is not the zero sentinel and the parent's reverse
\* lookup answered the empty text, resolution fails with the invalid-parent
\* error; it does not succeed with the base text alone.
C3_EmptyParentTextIsInvalidParent ==
    (LookupSettled /\ lk.par.st = "ok" /\ lk.par.val # zeroBytes32
                   /\ lk.ptext = Pending("ok", <<>>))
        => lk.out = Err("InvalidParentSchema")

\* C7: when resolution succeeds with a parent id other than the zero sentinel
\* and a non-empty parent text, finalSchema is the base text, then ", ", then
\* the parent text, and baseSchema is the base text alone.
C7_FinalSchemaIsBaseThenParent ==
    (LookupSettled /\ lk.out.kind = "value" /\ lk.par.val # zeroBytes32
                   /\ lk.ptext.st = "ok" /\ lk.ptext.val # <<>>)
        => /\ lk.out.final = lk.base.val \o <<",", " ">> \o lk.ptext.val
           /\ lk.out.base = lk.base.val
           /\ lk.base.val = (IF HexRef(request.ref)
                             THEN ChainReverseLookup(registry, request.ref)
                             ELSE request.ref)
           /\ lk.ptext.val = ChainReverseLookup(registry,
                                 ChainParentSchemaId(registry, lk.schemaId))
           /\ (Done /\ request.op = "getSchemaFromSchemaId") => result = lk.out

C7_Witness ==
    /\ Done /\ request.op = "getSchemaFromSchemaId"
    /\ result.kind = "value"
    /\ lk.par.val = HexId(2)
    /\ result.base = SchemaText(1)
    /\ result.final = <<"a", ",", " ", "b">>

\* C8: when the parent-id read answers the zero sentinel, no reverse lookup of
\* a parent is issued, and resolution of a schema whose base text is at hand
\* completes with finalSchema equal to baseSchema.
C8_ZeroParentMeansBaseOnly ==
    (lk.par.st = "ok" /\ lk.par.val = zeroBytes32)
        => /\ lk.ptext.st = "idle"
           /\ Cardinality(Reads("schemaReverseLookup")) = (IF HexRef(request.ref) THEN 1 ELSE 0)
           /\ \A i \in Reads("schemaReverseLookup") : calls[i].arg = lk.schemaId
           /\ (LookupSettled /\ lk.base.st = "ok" /\ Trim(lk.base.val) # <<>>)
                => (lk.out.kind = "value" /\ lk.out.final = lk.out.base
                                           /\ lk.out.base = lk.base.val)
           /\ (LookupSettled /\ lk.out.kind = "value") => lk.out.final = lk.out.base

C8_Witness ==
    /\ Done /\ request.op = "getSchemaFromSchemaId" /\ HexRef(request.ref)
    /\ lk.par = Pending("ok", zeroBytes32)
    /\ result.kind = "value"
    /\ result.final = SchemaText(1) /\ result.base = SchemaText(1)

\* C9: parent resolution has depth one: a resolution issues at most one
\* parent-id read, for the base identifier, and at most one parent text
\* lookup, for that read's answer; finalSchema never holds the fields of the
\* parent's own parent.
C9_ParentResolutionDepthOne ==
    request.op \in LookupOps =>
        /\ Cardinality(Reads("parentSchemaId")) <= 1
        /\ \A i \in Reads("parentSchemaId") : calls[i].arg = lk.schemaId
        /\ Cardinality({ i \in Reads("schemaReverseLookup") :
                           calls[i].arg # lk.schemaId }) <= 1
        /\ \A i \in Reads("schemaReverseLookup") :
             calls[i].arg # lk.schemaId => (lk.par.st = "ok" /\ calls[i].arg = lk.par.val)
        /\ (LookupSettled /\ lk.out.kind = "value")
             => /\ lk.out.final \in
                     {lk.base.val, lk.base.val \o <<",", " ">> \o lk.ptext.val}
                /\ Trim(GrandparentText(registry, lk.schemaId)) # <<>>
                     => IndexOf(lk.out.final, GrandparentText(registry, lk.schemaId)) = -1

C9_Witness ==
    /\ Done /\ request.op = "getSchemaFromSchemaId"
    /\ result.kind = "value"
    /\ GrandparentText(registry, lk.schemaId) = SchemaText(3)
    /\ result.final = <<"a", ",", " ", "b">>
    /\ Cardinality(Reads("parentSchemaId")) = 1
    /\ Cardinality(Reads("schemaReverseLookup")) = 2

\* What resolving the identifier id yields on the registry reg when no read
\* fails, whichever read answers first.
ResolutionOf(reg, id) ==
    LET base == ChainReverseLookup(reg, id)
        parentId == ChainParentSchemaId(reg, id)
        read == HasParent(parentId)
        parent == IF read THEN ChainReverseLookup(reg, parentId) ELSE <<>>
    IN  IF BaseNotRegistered(TRUE, base) THEN Err("SchemaNotRegistered")
        ELSE IF FinalSchemaError(base, read, parent) # ""
        THEN Err(FinalSchemaError(base, read, parent))
        ELSE ValSchema(base, FinalSchema(base, read, parent), id)

\* The two reads of the Promise.all have both been issued.
BothReadsIssued ==
    /\ \E i \in Reads("schemaReverseLookup") : calls[i].arg = lk.schemaId
    /\ \E i \in Reads("parentSchemaId") : calls[i].arg = lk.schemaId

\* C23: in resolving an identifier reference the base text lookup and the
\* parent-id read are both issued before either completes, the result is the
\* same whichever of them completes first, and the parent text lookup is
\* issued only after both have completed.
C23_ReadsIssuedTogether ==
    (request.op \in LookupOps /\ HexRef(request.ref) /\ lk.schemaId # <<>>) =>
        /\ BothReadsIssued
        /\ (LookupSettled /\ lk.out.kind # "thrown") =>
                lk.out = ResolutionOf(registry, request.ref)
        /\ (LookupSettled /\ lk.out.kind = "thrown") => lk.out = Thrown("ReadFailed")
        /\ (lk.ptext.st # "idle" \/ Cardinality(Reads("schemaReverseLookup")) > 1) =>
                (lk.base.st = "ok" /\ lk.par.st = "ok")

C23_Witness ==
    /\ request.op = "getSchemaFromSchemaId"
    /\ HexRef(request.ref)
    /\ BothReadsIssued
    /\ lk.par.st = "ok"
    /\ lk.base.st = "pending"
    /\ HasParent(lk.par.val)
    /\ lk.ptext.st = "idle"

\* C24: when the contract read or write of a public operation fails with a
\* contract revert, bare or wrapped in outer errors, the revert's name and
\* arguments are logged with the operation's context before the operation
\* returns its Error.
C24_RevertLogged ==
    (Done /\ result = Err("Reverted")) =>
        \E i \in 1..Len(warnings) :
            /\ warnings[i].errorName = ContractFunctionRevertedError.errorName
            /\ warnings[i].args = ContractFunctionRevertedError.args
            /\ warnings[i].context # ""

\* C25: when the public transport of the client is not a websocket transport,
\* subscribe fails: no subscription is started, no event-schema read is
\* issued and onData is never invoked.
C25_SubscribeNeedsWebSocket ==
    (request.op \in SubscribeOps /\ transport # "webSocket") =>
        /\ \A i \in 1..Len(calls) : calls[i].kind \notin {"subscribe", "callback"}
        /\ Reads("getEventSchemasById") = {}
        /\ Done => result = Val("undefined")

C25_Witness ==
    /\ Done
    /\ request.op \in SubscribeOps
    /\ transport = "http"
    /\ getContractAddressAndAbi(chainId) = "ok"
    /\ request.ref = HexId(1)
    /\ request.addr = <<>>
    /\ result = Val("undefined")

\* ------------------------------------------------------ the facade's results

\* The operations of Streams that read from the contract.
ReadingOps ==
    {"computeSchemaId", "isDataSchemaRegistered", "totalPublisherDataForSchema",
     "parentSchemaId", "schemaIdToSchemaName", "schemaNameToSchemaId", "getAllSchemas",
     "getEventSchemasById", "getAtIndex", "getBetweenRange", "getByKey",
     "getAllPublisherDataForSchema", "getLastPublishedDataForSchema",
     "getLastNPublishedDataForSchema", "getSchemaFromSchemaId"}

\* C4: when the contract read of a reading operation fails, the operation
\* settles with an Error value; its promise is never rejected.
C4_FailedReadIsErrorValue ==
    (Done /\ request.op \in ReadingOps /\ result.err = "ReadFailed")
        => result.kind = "error"

\* C5: every write operation settles with a transaction hash or an Error
\* value; when the write cannot be sent the result is an Error, never null.
C5_WriteYieldsHashOrError ==
    (Done /\ request.op \in WriteOps \cup EarlierVariantOps)
        => \/ result.kind = "value" /\ result.tag = "hash"
           \/ result.kind = "error"

\* C6: an operation given a malformed or zero publisher/emitter address fails
\* with the invalid-address error before any chain-id fetch, binding lookup,
\* contract read or contract write.
C6_InvalidAddressFailsBeforeAnyCall ==
    (request.op \in AddressOps /\ request.addr # GoodAddress)
        => /\ calls = <<>>
           /\ stack # <<>> => Top.pc = "entry"
           /\ Done => result.err \in {"InvalidAddress", "ZeroAddress"}

\* Both variants of getByKey.
\* C18: a reference without the hex-prefix marker is literal schema text
\* whose identifier is computed locally: resolving it issues no computeSchemaId
\* contract read and no chain-id fetch to obtain the identifier.
C18_LiteralIdIsLocal ==
    (request.op \in LookupOps /\ IsLiteralSchema(request.ref)) =>
        /\ Reads("computeSchemaId") = {}
        /\ \A k \in 1..Len(stack) :
            (stack[k].fn = "computeSchemaId" /\ k < Len(stack)) =>
                stack[k].pc # "chainId_wait"

\* C19: a schema reference that is empty or only whitespace makes resolution
\* fail with the invalid-reference error before any computeSchemaId,
\* schemaReverseLookup or parentSchemaId read is issued, and
\* deserialiseRawData and getSchemaFromSchemaId then settle with an Error.
C19_BlankReferenceRejected ==
    (request.op \in LookupOps /\ Len(Trim(request.ref)) = 0) =>
        /\ Reads("computeSchemaId") \cup Reads("schemaReverseLookup")
                \cup Reads("parentSchemaId") = {}
        /\ LookupSettled => lk.out = Thrown("InvalidSchemaReference")
        /\ (Done /\ request.op \in {"deserialiseRawData", "getSchemaFromSchemaId"}) =>
            /\ result.kind = "error"
            /\ LookupSettled => result = Err("InvalidSchemaReference")

C19_Witness ==
    /\ Done
    /\ request.op = "deserialiseRawData"
    /\ request.ref = <<" ">>
    /\ lk.out = Thrown("InvalidSchemaReference")
    /\ result = Err("InvalidSchemaReference")

\* C20: when the registry has no STREAMS address for the connected chain, or
\* has the zero address, binding resolution fails and every public operation
\* returns an Error without issuing a contract read or a contract write.
C20_UnboundChainFails ==
    (request.op \in PublicOps /\ getContractAddressAndAbi(clientChain) # "ok") =>
        /\ \A i \in 1..Len(calls) : calls[i].kind \notin {"read", "write"}
        /\ Done => result.kind = "error"

\* C21: deserialiseRawData settles with an Error, with the raw list unchanged,
\* or with a decoded list holding one entry per raw payload in the same
\* order, each decoded against the resolved schema; when the schema resolved
\* and a payload does not decode, the result is an Error.
C21_AllOrNothingDecode ==
    (Done /\ request.op = "deserialiseRawData") =>
        /\ \/ result.kind = "error"
           \/ result = ValRaw(request.args)
           \/ /\ result.kind = "value"
              /\ result.tag = "decoded"
              /\ Len(result.decoded) = Len(request.args)
              /\ \A i \in 1..Len(request.args) :
                    result.decoded[i] = DecodeData(lk.out.final, request.args[i])
        /\ (lk.out.kind = "value"
              /\ \E i \in 1..Len(request.args) : DecodeThrows(lk.out.final, request.args[i]))
            => result = Err("DecodeError")

C21_Witness ==
    /\ Done
    /\ request.op = "deserialiseRawData"
    /\ request.args = <<"p1", "bad">>
    /\ lk.out.kind = "value"
    /\ result = Err("DecodeError")

Writes == { i \in 1..Len(calls) : calls[i].kind = "write" }

KeyOps == {"getByKey", "getByKey (earlier variant)"}

\* The data-at-index reads issued so far.
AtIndexReads ==
    { i \in 1..Len(calls) : calls[i].fn \in {"getPublisherDataForSchemaAtIndex"} }

\* C14: when publisherDataIndex has answered getByKey with an index n >= 1,
\* the getAtIndex call and its data-at-index read are for index n - 1, with
\* the same schema id and publisher; index n is never read.
C14_KeyIndexAdjusted ==
    \A k \in 1..Len(stack) :
        (stack[k].fn \in KeyOps /\ stack[k].pc = "tail" /\ stack[k].idx >= 1) =>
            /\ k > 1 => /\ stack[k - 1].idx = stack[k].idx - 1
                        /\ stack[k - 1].ref = stack[k].ref
                        /\ stack[k - 1].addr = stack[k].addr
            /\ \A i \in AtIndexReads : /\ calls[i].idx = stack[k].idx - 1
                                       /\ calls[i].arg = stack[k].ref

\* C28: getByKey never issues a data-at-index read with a negative index:
\* when publisherDataIndex answers 0, getByKey returns an Error and index -1
\* is not read.
C28_NoNegativeIndexRead ==
    request.op \in KeyOps =>
        /\ \A i \in AtIndexReads : calls[i].idx >= 0
        /\ \A k \in 1..Len(stack) :
             (stack[k].fn \in KeyOps /\ stack[k].pc = "tail" /\ stack[k].idx = 0) =>
                 AtIndexReads = {}

\* The parent text lookups of a resolution of literal schema text: at most
\* one, for the non-zero parent identifier the parent-id read answered.
ParentLookupOnly ==
    /\ Cardinality(Reads("schemaReverseLookup")) <= 1
    /\ \A i \in Reads("schemaReverseLookup") :
         /\ lk.par.st = "ok"
         /\ HasParent(lk.par.val)
         /\ calls[i].arg = lk.par.val

\* The resolution of literal text answers the text as its base schema and
\* never reports the schema as not registered.
LiteralBaseKept ==
    /\ (LookupSettled /\ lk.out.kind = "value") => lk.out.base = request.ref
    /\ LookupSettled => lk.out.err # "SchemaNotRegistered"

\* C30: resolving literal schema text (no hex-prefix marker) issues no reverse
\* lookup of the base schema text, answers the reference text exactly as
\* supplied as baseSchema and succeeds whether or not the schema is registered;
\* the only registry reads it issues are the parent-identifier read and, when
\* the parent is non-zero, one parent text lookup.
C30_LiteralTextReads ==
    (/\ request.op \in {"deserialiseRawData", "getSchemaFromSchemaId"}
     /\ IsLiteralSchema(request.ref)
     /\ Len(Trim(request.ref)) > 0) =>
        /\ \A i \in DOMAIN calls :
             calls[i].kind = "read" => calls[i].fn \in {"parentSchemaId", "schemaReverseLookup"}
        /\ ParentLookupOnly
        /\ LiteralBaseKept

\* registerDataSchemas is waiting for its write, its tasks still at hand.
RegisterWriting ==
    /\ stack # <<>>
    /\ stack[1].fn = "registerDataSchemas"
    /\ stack[1].pc = "wait_write"

\* The registrations of list the contract reported as not registered, in
\* their order, an absent parent replaced by the zero identifier.
ReportedUnregistered(list, tasks) ==
    LET kept == SelectSeq([i \in 1..Len(list) |-> i], LAMBDA i : ~tasks[i].registered)
    IN  [k \in 1..Len(kept) |->
            [schema |-> list[kept[k]].schema,
             parentSchemaId |-> IF list[kept[k]].parentSchemaId = <<>>
                                THEN zeroBytes32
                                ELSE list[kept[k]].parentSchemaId]]

\* C26: registerDataSchemas with ignoreRegisteredSchemas issues a single
\* registerSchemas write carrying exactly the registrations whose computed id
\* the contract reports as not registered, in their original order, each
\* with an absent parentSchemaId replaced by the zero bytes32; when a
\* computeSchemaId or isSchemaRegistered read fails no write is issued and an
\* Error is returned.
C26_WritesOnlyUnregistered ==
    (request.op = "registerDataSchemas" /\ request.args[2]) =>
        /\ Cardinality(Writes) <= 1
        /\ \A i \in Writes : calls[i].fn = "registerSchemas"
        /\ RegisterWriting =>
            /\ Cardinality(Writes) = 1
            /\ \A k \in 1..Len(stack[1].regs.tasks) : stack[1].regs.tasks[k].st = "done"
            /\ \A i \in Writes :
                 calls[i].regs = ReportedUnregistered(request.args[1], stack[1].regs.tasks)
        /\ (Done /\ result.err = "ReadFailed") => (Writes = {} /\ result.kind = "error")

C26_Witness ==
    /\ RegisterWriting
    /\ request.args[2]
    /\ Len(request.args[1]) = 2
    /\ stack[1].regs.tasks[1].registered
    /\ ~stack[1].regs.tasks[2].registered
    /\ \E i \in Writes :
         calls[i].regs = <<Registration(SchemaText(2), HexId(1))>>

\* registerDataSchemas is about to find that nothing is left to register.
NothingLeft ==
    /\ stack # <<>>
    /\ stack[1].fn = "registerDataSchemas"
    /\ \/ stack[1].pc = "body" /\ stack[1].regs.list = <<>>
       \/ /\ stack[1].pc = "tasks"
          /\ \A k \in 1..Len(stack[1].regs.tasks) :
                stack[1].regs.tasks[k].st = "done" /\ stack[1].regs.tasks[k].registered

\* C27: registerDataSchemas never issues a registerSchemas write with an empty
\* list: when the input list is empty, or ignoreRegisteredSchemas is set and
\* every schema is already registered, it returns the Error 'Nothing to
\* register' and issues no contract write.
C27_NoEmptyRegistration ==
    [][/\ \A i \in 1..Len(calls') :
            (calls'[i].kind = "write" /\ calls'[i].fn = "registerSchemas")
                => calls'[i].regs # <<>>
       /\ NothingLeft => /\ result' = Err("NothingToRegister")
                          /\ calls' = calls]_vars

C27_Witness ==
    /\ Done
    /\ request.op = "registerDataSchemas"
    /\ request.args[2]
    /\ request.args[1] # <<>>
    /\ result = Err("NothingToRegister")
    /\ Writes = {}
    /\ Cardinality(Reads("isSchemaRegistered")) = Len(request.args[1])


\* --------------------------------------------- the codec: schemas and values

\* Longest array among the values handed to encodeData.
MaxArrayLen == 2

IdField == Primitive(UINT256, "id")
OkField == Primitive(BOOL, "ok")
OwnerField == Primitive(ADDRESS, "owner")
HashField == Primitive(BYTES32, "hash")
NoteField == Primitive(STRING_TYPE, "note")
IdsField == Primitive(UINT256 \o ArraySuffix, "ids")
OwnersField == Primitive(ADDRESS \o ArraySuffix, "owners")
HashesField == Primitive(BYTES32 \o ArraySuffix, "hashes")
PairField == AbiParameter(TUPLE_TYPE, "pair", TRUE, <<OwnerField, HashField>>)
PairsField == AbiParameter(TUPLE_TYPE \o ArraySuffix, "pairs", TRUE, <<OwnerField, HashField>>)
OuterField == AbiParameter(TUPLE_TYPE, "outer", TRUE, <<PairField, NoteField, IdsField>>)
GridField ==
    AbiParameter(TUPLE_TYPE \o ArraySuffix \o ArraySuffix, "grid", TRUE,
                 <<OwnerField, HashField>>)

\* The parsed schemas an encoder is built on.
Schemas ==
    {<<IdField>>, <<OkField>>, <<OwnerField>>, <<HashField>>, <<NoteField>>,
     <<IdsField>>, <<OwnersField>>, <<HashesField>>, <<PairField>>, <<PairsField>>,
     <<OuterField>>, <<GridField>>,
     <<IdField, HashField, OwnerField>>,
     <<NoteField, PairsField, OkField>>}

\* An address in upper-case digits, and a 32-byte value in hex.
UpperAddress == HexPrefix \o [i \in 1..40 |-> IF i % 2 = 1 THEN "A" ELSE "1"]

HashHex == HexPrefix \o [i \in 1..(2 * WordSize) |-> HexDigits[(i % 16) + 1]]

RECURSIVE ValuesOf(_)
RECURSIVE TuplesOf(_)
RECURSIVE ArraysOf(_, _)

\* The values valid for a parameter; an array of arrays has one row.
ValuesOf(p) ==
    IF EndsWith(p.type, ArraySuffix \o ArraySuffix)
    THEN { Arr(<<row>>) : row \in ValuesOf(ElementParam(p)) }
    ELSE IF EndsWith(p.type, ArraySuffix)
    THEN { Arr(a) : a \in ArraysOf(ValuesOf(ElementParam(p)), MaxArrayLen) }
    ELSE IF p.hasComponents THEN { Arr(t) : t \in TuplesOf(p.components) }
    ELSE IF p.type = ADDRESS THEN {Str(GoodAddress), Str(UpperAddress)}
    ELSE IF p.type = BOOL THEN {Bool(TRUE), Bool(FALSE)}
    ELSE IF p.type = BYTES32 THEN {Str(<<"a", "b">>), Str(HashHex)}
    ELSE IF p.type = STRING_TYPE THEN {Str(<<>>), Str(<<"a", "b", " ", "c">>)}
    ELSE {Num(0), Num(300)}

TuplesOf(ps) ==
    IF ps = <<>> THEN {<<>>}
    ELSE { <<v>> \o rest : v \in ValuesOf(Head(ps)), rest \in TuplesOf(Tail(ps)) }

ArraysOf(elems, len) ==
    IF len = 0 THEN {<<>>}
    ELSE ArraysOf(elems, len - 1)
         \cup { Append(a, e) : a \in { b \in ArraysOf(elems, len - 1) : Len(b) = len - 1 },
                               e \in elems }

\* The SchemaItem lists for a schema: the valid ones, one with an item
\* missing, and one with a malformed address.
ItemsOf(abi, values) ==
    [i \in 1..Len(values) |-> SchemaItem(abi[i].name, SchemaOf(abi)[i].type, values[i])]

\* An item beyond the schema's last, a type no schema here has, and a name
\* no field here has.
ExtraItem == SchemaItem("extra", BOOL, Bool(TRUE))

OtherType == <<"i", "n", "t", "8">>

OtherName == "other"

\* The types an item may declare for a schema entry: the entry's type, bare
\* and with blanks around it, its signature, the alias, and another type.
DeclaredTypes(entry) ==
    {entry.type, <<" ">> \o entry.type \o <<" ">>, entry.signature, IPFS_HASH, OtherType}

ItemListsOf(abi) ==
    { ItemsOf(abi, values) : values \in TuplesOf(abi) }
    \cup { ItemsOf(abi, SubSeq(values, 1, Len(values) - 1)) : values \in TuplesOf(abi) }
    \cup { Append(ItemsOf(abi, values), ExtraItem) : values \in TuplesOf(abi) }
    \cup { [ItemsOf(abi, values) EXCEPT ![Len(abi)].type = t] :
               values \in TuplesOf(abi), t \in DeclaredTypes(SchemaOf(abi)[Len(abi)]) }
    \cup { [ItemsOf(abi, values) EXCEPT ![Len(abi)].name = OtherName] :
               values \in TuplesOf(abi) }
    \cup (IF abi = <<OwnerField>> THEN {ItemsOf(abi, <<Str(ShortAddress)>>)} ELSE {})

\* ------------------------------------------------- the codec: one round trip

FacadeInit ==
    /\ chainId = 0
    /\ warnings = <<>>
    /\ request = NoRequest
    /\ registry = NoRegistry
    /\ stack = <<>>
    /\ ret = NoRet
    /\ calls = <<>>
    /\ result = NoRet
    /\ lk = NoLookup

\* new SchemaEncoder(schema), and the items the caller is about to encode
CodecInit ==
    /\ FacadeInit
    /\ clientChain = SomniaTestnet
    /\ hasWallet = FALSE
    /\ transport = "http"
    /\ \E abi \in Schemas : \E list \in ItemListsOf(abi) :
        /\ abiParams = abi
        /\ items = list
    /\ payload = <<>>
    /\ decodedItems = <<>>
    /\ codecPc = "ready"
    /\ encoderVariant \in {"current", "earlier"}
    /\ thrown = ""
    /\ NoChainIdCalls

\* SchemaEncoder.encodeData(items)
CallEncodeData ==
    /\ codecPc = "ready"
    /\ encoderVariant = "current"
    /\ thrown' = EncodeDataError(abiParams, items)
    /\ IF EncodeDataThrows(abiParams, items)
       THEN codecPc' = "thrown" /\ UNCHANGED payload
       ELSE codecPc' = "encoded" /\ payload' = encodeData(abiParams, items)
    /\ UNCHANGED <<facadeVars, viemVars, abiParams, items, decodedItems, encoderVariant>>

\* SchemaEncoder.encodeData(items), earlier variant
CallEarlierEncodeData ==
    /\ codecPc = "ready"
    /\ encoderVariant = "earlier"
    /\ thrown' = EarlierEncodeDataError(abiParams, items)
    /\ IF EarlierEncodeDataError(abiParams, items) # ""
       THEN codecPc' = "thrown" /\ UNCHANGED payload
       ELSE codecPc' = "encoded" /\ payload' = EarlierEncodeData(abiParams, items)
    /\ UNCHANGED <<facadeVars, viemVars, abiParams, items, decodedItems, encoderVariant>>

\* SchemaEncoder.decodeData(payload)
CallDecodeData ==
    /\ codecPc = "encoded"
    /\ encoderVariant = "current"
    /\ decodedItems' = decodeData(abiParams, payload)
    /\ codecPc' = "decoded"
    /\ UNCHANGED <<facadeVars, viemVars, abiParams, items, payload, encoderVariant, thrown>>

CodecNext ==
    \/ CallEncodeData
    \/ CallEarlierEncodeData
    \/ CallDecodeData

SpecCodec == CodecInit /\ [][CodecNext]_vars

RECURSIVE LogicalValue(_)
\* The value a decoded item stands for: the items of a tuple or an array
\* taken out of their { name, type, value } wrapping.
LogicalValue(x) ==
    IF x.k = "item" THEN LogicalValue(x.v)
    ELSE IF x.k = "array" THEN Arr([i \in 1..Len(x.e) |-> LogicalValue(x.e[i])])
    ELSE x

RECURSIVE Normalised(_, _)
\* The value with a bytes32 text turned into its 32 bytes (the characters,
\* then zeros) and an address checksummed.
Normalised(p, value) ==
    IF EndsWith(p.type, ArraySuffix)
    THEN Arr([i \in 1..Len(value.e) |-> Normalised(ElementParam(p), value.e[i])])
    ELSE IF p.hasComponents
    THEN Arr([i \in 1..Len(p.components) |-> Normalised(p.components[i], value.e[i])])
    ELSE IF p.type = BYTES32 /\ ~StartsWith(value.s, HexPrefix)
    THEN Str(HexPrefix \o BytesToHex([i \in 1..WordSize |->
                                        IF i <= Len(value.s) THEN CharCode(value.s[i])
                                        ELSE 0]))
    ELSE IF p.type = ADDRESS THEN Str(checksumAddress(value.s))
    ELSE value

\* C10: decodeData(encodeData(V)) gives, field by field, the values of V, a
\* bytes32 text being replaced by its fixed-size bytes and an address by its
\* checksummed form; for primitive, tuple and array fields alike.
C10_RoundTrip ==
    codecPc = "decoded" =>
        /\ Len(decodedItems) = Len(items)
        /\ \A i \in 1..Len(items) :
             LogicalValue(decodedItems[i].value) = Normalised(abiParams[i], items[i].v)

\* encodeData has been called on the encoder.
Encoding == codecPc \in {"encoded", "decoded", "thrown"}

\* C11: whenever the number of items handed to encodeData differs from the
\* number of schema entries (fewer or more, an empty list included), the call
\* fails with the arity error and no payload is produced.
C11_ArityEnforced ==
    (Encoding /\ Len(items) # Len(abiParams)) =>
        /\ codecPc = "thrown"
        /\ thrown \in {"InvalidNumberOfParameters", "InvalidNumberOrValues"}
        /\ payload = <<>>

C11_Witness ==
    /\ codecPc = "thrown"
    /\ encoderVariant = "current"
    /\ abiParams = <<IdField, HashField, OwnerField>>
    /\ Len(items) = Len(abiParams) + 1
    /\ thrown = "InvalidNumberOfParameters"

\* The items are as many as the schema's entries.
ArityMatches == Len(items) = Len(abiParams)

\* Some item declares a type that, blanks removed, is neither the type nor the
\* signature of its schema entry, nor the alias against bytes32.
SomeTypeMismatch ==
    \E i \in 1..Len(items) : IncompatibleType(items[i].type, SchemaOf(abiParams)[i])

\* Some item declares the alias type against a bytes32 entry.
SomeAlias ==
    \E i \in 1..Len(items) :
        /\ RemoveWhitespace(items[i].type) = IPFS_HASH
        /\ SchemaOf(abiParams)[i].type = BYTES32

\* Some item carries a name other than its schema entry's.
SomeNameMismatch ==
    \E i \in 1..Len(items) : items[i].name # SchemaOf(abiParams)[i].name

\* C12: encodeData fails with the type-mismatch error whenever an item's
\* declared type, whitespace removed, is neither the type nor the signature of
\* the schema entry at its position; ipfsHash declared against bytes32 is
\* accepted and encodes.
C12_TypeEnforced ==
    /\ (Encoding /\ ArityMatches /\ SomeTypeMismatch) =>
            /\ codecPc = "thrown"
            /\ thrown = "IncompatibleParamType"
            /\ payload = <<>>
    /\ (Encoding /\ ArityMatches /\ SomeAlias /\ ~SomeTypeMismatch /\ ~SomeNameMismatch) =>
            codecPc # "thrown"

\* C13: encodeData fails with the name-mismatch error whenever an item's name
\* differs from the name of the schema entry at its position, and produces no
\* payload.
C13_NameEnforced ==
    (Encoding /\ ArityMatches /\ SomeNameMismatch /\ ~SomeTypeMismatch) =>
        /\ codecPc = "thrown"
        /\ thrown = "IncompatibleParamName"
        /\ payload = <<>>

RECURSIVE TypeTag(_)
\* The type tag of a parameter with every tuple, nested ones too, rendered as
\* the parenthesized list of its components' tags.
TypeTag(p) ==
    IF StartsWith(p.type, TUPLE_TYPE)
    THEN <<"(">> \o Join([i \in 1..Len(p.components) |-> TypeTag(p.components[i])], <<",">>)
         \o <<")">> \o (IF EndsWith(p.type, ArraySuffix) THEN ArraySuffix ELSE <<>>)
    ELSE p.type

\* C22: the type tag of a tuple or tuple-array schema entry is the
\* parenthesized, comma-joined list of its components' tags computed
\* recursively (a nested tuple is its own parenthesized list, never the bare
\* word tuple), with [] appended for arrays, and does not depend on names.
C22_TupleTagRecursive ==
    \A i \in 1..Len(abiParams) :
        StartsWith(abiParams[i].type, TUPLE_TYPE) =>
            /\ SchemaOf(abiParams)[i].type = TypeTag(abiParams[i])
            /\ SchemaOf(stripAbiNames(abiParams))[i].type = SchemaOf(abiParams)[i].type

\* --------------------------------- Viem.getChainId under concurrent callers

\* A Viem instance on a fresh client, and nothing else in progress.
ViemInit ==
    /\ FacadeInit
    /\ clientChain \in ClientChains
    /\ hasWallet = FALSE
    /\ transport = "http"
    /\ abiParams = <<>>
    /\ items = <<>>
    /\ payload = <<>>
    /\ decodedItems = <<>>
    /\ codecPc = "idle"
    /\ encoderVariant = "current"
    /\ thrown = ""
    /\ NoChainIdCalls

\* `if (this._chainId === 0)`: the test that sends a call to the public client
FetchNeeded(cached) == cached = 0

\* A caller calls getChainId(): with the cache unset the call issues
\* client.public.getChainId() and suspends at the await; with the cache set it
\* returns the cached id at once.
StartGetChainId(p) ==
    /\ getChainIdCalls[p].pc # "fetching"
    /\ getChainIdCalls' = [getChainIdCalls EXCEPT ![p] =
            [IF FetchNeeded(chainId)
             THEN ChainIdCall("fetching", 0, TRUE, completedIds)
             ELSE ChainIdCall("returned", chainId, FALSE, completedIds)
             EXCEPT !.afterFailure = \E q \in Callers : getChainIdCalls[q].pc = "rejected"]]
    /\ completedIds' = IF FetchNeeded(chainId) THEN completedIds ELSE completedIds \cup {chainId}
    /\ UNCHANGED <<facadeVars, codecVars, chainIdWrites>>

\* The fetch of a suspended call answers with the chain the public client is
\* on: `this._chainId = await ...; return this._chainId`.
ChainIdResolved(p) ==
    /\ getChainIdCalls[p].pc = "fetching"
    /\ chainId' = clientChain
    /\ chainIdWrites' = chainIdWrites + 1
    /\ getChainIdCalls' = [getChainIdCalls EXCEPT ![p].pc = "returned", ![p].value = clientChain]
    /\ completedIds' = completedIds \cup {clientChain}
    /\ UNCHANGED <<codecVars, clientChain, hasWallet, transport, request, registry, stack, ret, calls, result, lk,
                   warnings>>

\* The fetch of a suspended call fails: the await throws, nothing is assigned.
ChainIdRejectedMutant(p) ==
    /\ getChainIdCalls[p].pc = "fetching"
    /\ getChainIdCalls' = [getChainIdCalls EXCEPT ![p].pc = "rejected"]
    /\ chainId' = 1
    /\ UNCHANGED <<codecVars, clientChain, hasWallet, transport, request, registry, stack, ret, calls, result, lk,
                   warnings, chainIdWrites, completedIds>>

ChainIdRejected(p) ==
    /\ getChainIdCalls[p].pc = "fetching"
    /\ getChainIdCalls' = [getChainIdCalls EXCEPT ![p].pc = "rejected"]
    /\ UNCHANGED <<facadeVars, codecVars, chainIdWrites, completedIds>>

\* The endpoint behind the public client moves to another chain.
SwitchChain ==
    /\ \E c \in ClientChains \ {clientChain} : clientChain' = c
    /\ UNCHANGED <<codecVars, viemVars, warnings, chainId, hasWallet, transport, request, registry, stack, ret, calls, result, lk>>

ViemNext ==
    \/ \E p \in Callers : StartGetChainId(p)
    \/ \E p \in Callers : ChainIdResolved(p)
    \/ \E p \in Callers : ChainIdRejected(p)
    \/ SwitchChain

SpecViem == ViemInit /\ [][ViemNext]_vars

\* C15: in every interleaving of getChainId calls on one client, first callers
\* with fetches in flight at the same time and answering differently included,
\* the cached chain id is written at most once: once it is non-zero it never
\* changes and is never reset.
C15_CacheWrittenOnce ==
    [][/\ chainIdWrites' <= 1
       /\ chainId # 0 => chainId' = chainId]_vars

\* C16: once a getChainId call has completed with a non-zero chain id c,
\* every getChainId call that starts afterwards returns c and issues no fetch
\* to the public client.
C16_LaterCallsReuse ==
    \A p \in Callers :
        getChainIdCalls[p].pc = "returned" =>
            \A c \in getChainIdCalls[p].after :
                /\ getChainIdCalls[p].value = c
                /\ ~getChainIdCalls[p].fetched

\* C29: a failed chain-id fetch leaves the cached chain identity as it was,
\* unset when no fetch has succeeded; a getChainId call that starts while
\* the cache is unset, after a failure included, issues a new fetch; and a
\* fetch that succeeds sets the cache to the fetched identity.
C29_FailedFetchNotCached ==
    [][\A p \in Callers :
        /\ (getChainIdCalls[p].pc = "fetching" /\ getChainIdCalls'[p].pc = "rejected")
              => chainId' = chainId
        /\ (getChainIdCalls[p].pc # "fetching" /\ getChainIdCalls'[p] # getChainIdCalls[p]
              /\ chainId = 0)
              => (getChainIdCalls'[p].pc = "fetching" /\ getChainIdCalls'[p].fetched)
        /\ (getChainIdCalls[p].pc = "fetching" /\ getChainIdCalls'[p].pc = "returned")
              => (chainId' # 0 /\ chainId' = getChainIdCalls'[p].value)]_vars

C29_Witness ==
    \E p \in Callers :
        /\ getChainIdCalls[p].pc = "returned"
        /\ getChainIdCalls[p].fetched
        /\ getChainIdCalls[p].afterFailure
        /\ getChainIdCalls[p].after = {}
        /\ chainId = getChainIdCalls[p].value
        /\ chainId # 0
====
